---- MODULE Spec2Model ----
(***************************************************************************)
(* A model of the rust-jvm virtual machine: value slots, the object heap,  *)
(* class initialization, the bootstrap class loader and the interpreter's  *)
(* frame stack with exception unwinding.  Every part has its own           *)
(* specification over the shared variables; the variables of the other     *)
(* parts stay at their idle values.                                        *)
(***************************************************************************)
EXTENDS Integers, Sequences, FiniteSets, TLC

VARIABLES
    \* Part 1: Variable::put_long / Variable::get_long on an operand stack
    long_v,        \* the i64 handed to push_long
    long_stack,    \* frame.stack: a sequence of 32-bit slots
    long_out,      \* the i64 returned by pop_long, NoLong before
    \* Part 2: Heap (the ordinary heap)
    heap,          \* Heap.heap: Vec<Option<Arc<Box<HeapObject>>>>
    next_id,       \* Heap.next_id
    heap_ptrs,     \* number of objects created so far (the next fresh address)
    heap_live,     \* history: the (id, object) pairs returned and not yet deallocated
    \* Part 3: initialize_class
    clinit_status, \* Class.clinit_call's cell: class -> ClinitStatus
    clinit_lock,   \* Class.clinit_call's reentrant mutex: class -> [owner, count]
    init_stack,    \* thread -> the nested activations of initialize_class
    init_ret,      \* thread -> the result the innermost finished call returned
    init_calls,    \* thread -> number of outermost calls made so far
    clinit_runs,   \* history: class -> number of executions of <clinit>
    clinit_failed, \* history: class -> its <clinit> has thrown
    init_completed,\* history: class -> number of finished initialize_class calls
    init_late_ok,  \* history: class -> a call begun after the failure returned Ok
    \* Part 4: BootstrapClassLoader::resolve_class
    class_registry,\* name -> the OnceCell of the registry entry
    class_ptrs,    \* number of runtime classes created so far (Arc::new)
    load_stack,    \* thread -> the nested activations of resolve_class
    load_ret,      \* thread -> the class the innermost finished call returned
    load_calls,    \* thread -> number of outermost calls made so far
    registered,    \* history: name -> every class ever stored in the cell
    load_got,      \* history: thread -> name -> every class resolve_class returned
    define_count,  \* history: name -> number of finished define_class calls
    load_raced,    \* history: name -> a thread waited for another's definition
    \* Part 5: Thread::execute and the interpreter
    guest,         \* the class file of the guest program (fixed after loading)
    top_frame,     \* Thread.top_frame: the top frame first, then its previous_frame chain
    pc,            \* the program counter of Thread::execute
    exec_result,   \* "running", the result of Thread::execute ("Ok", "Err"), or "panic"
    exec_err,      \* the exception Thread::execute returned in Err
    raised,        \* history: the last exception raised, with the frames at that moment
    handler_entry, \* history: the last entry into an exception handler
    delivered,     \* history: the values returned into caller frames
    invoke_log,    \* history: the last INVOKESPECIAL / INVOKEVIRTUAL executed
    classes,       \* the classes handed to define_class (fixed), by class name
    vtable,        \* Class.vtable of each class define_class has built
    invoked,       \* history: the last Next::InvokeSpecial executed and its target
    special_heap,  \* Heap.special_heap.heap
    special_next_id, \* Heap.special_heap.next_id
    string_map,    \* StringTable.map: bytes -> StringTableEntry
    class_map,     \* ClassTable.map: class name -> identifier
    intern_log,    \* history: the intern_string calls made, in order
    shift_v1,      \* the value under the shift count on the operand stack (64 bits)
    shift_v2,      \* the shift count on top of the operand stack
    shift_out,     \* history: the shift executed and the value it pushed
    cast_class,    \* the class of the object the reference on the stack denotes; "" for null
    cast_target,   \* the class the constant-pool entry of the instruction resolves to
    cast_out,      \* history: the instruction executed and its outcome
    cast_frame,    \* the class of the method executing the instruction
    cast_cell,     \* CpClassInfo.class of the entry: "" while the cell is empty
    arr_heap,      \* the heap: identifier -> object (class, elements of an array)
    arr_out,       \* history: the array operation executed, the heap before it, its outcome
    monitor,       \* the ObjectMonitor of each object, by identifier
    mon_out,       \* history: the monitor instruction executed, by whom, the monitor before it, its outcome
    max_frame_size,\* Thread.max_frame_size
    field_files,   \* the class files of the guest, with their fields
    instance_fields_info,\* class name -> Class.instance_fields_info of a resolved class
    field_eager,   \* class name -> the field references of its own pool resolved at definition
    field_lazy,    \* history: the last field reference resolved at first access
    fields_or_array, \* object -> HeapObject.fields_or_array, a sequence of bytes
    last_put,      \* object -> slot or element -> the value last written, the initial value if none
    payload_got,   \* the last read: object, index and the value it returned
    arith_a,       \* the operand on top of the operand stack (value2)
    arith_b,       \* the operand below it (value1)
    arith_out,     \* the outcome of the arithmetic instruction executed
    new_arrays,    \* the arrays allocated, in allocation order: the array of id i is new_arrays[i]
    newarray_out,  \* the outcome of the last array creation instruction
    clone_out,     \* history: the last Object.clone executed and its outcome
    cp_input,      \* the class file after its header: the constant-pool count and the constants that follow
    cp_parsed,     \* history: the result of parse_constant_pool, NoParse before
    array_registry, \* class_registry restricted to array classes: the classes defined so far
    array_resolved, \* history: the last resolve_class of an array name and what it returned
    array_type,    \* history: the last get_array_type and what it returned
    switch_in,     \* the method code with a switch instruction, its address and the int on the operand stack
    switch_out,    \* history: the program counter after the switch, NoSwitch before
    iinc_in,       \* an IINC instruction (the bytes after the opcode, wide or not) and the locals of the frame
    iinc_out       \* history: the locals after the IINC, or the panic; NoIinc before

LongVars == <<long_v, long_stack, long_out>>
HeapVars == <<heap, next_id, heap_ptrs, heap_live>>
InitVars == <<clinit_status, clinit_lock, init_stack, init_ret, init_calls,
              clinit_runs, clinit_failed, init_completed, init_late_ok>>
LoadVars == <<class_registry, class_ptrs, load_stack, load_ret, load_calls,
              registered, load_got, define_count, load_raced>>
ExecVars == <<guest, top_frame, pc, exec_result, exec_err, raised, handler_entry,
              delivered, invoke_log>>
VtableVars == <<classes, vtable, invoked>>
StringVars == <<special_heap, special_next_id, string_map, class_map, intern_log>>
ShiftVars == <<shift_v1, shift_v2, shift_out>>
CastVars == <<cast_class, cast_target, cast_out, cast_frame, cast_cell>>
ArrayVars == <<arr_heap, arr_out>>
MonitorVars == <<monitor, mon_out>>
DepthVars == <<max_frame_size>>
FieldVars == <<field_files, instance_fields_info, field_eager, field_lazy>>
PayloadVars == <<fields_or_array, last_put, payload_got>>
ArithVars == <<arith_a, arith_b, arith_out>>
NewArrayVars == <<new_arrays, newarray_out>>
CloneVars == <<clone_out>>
ParserVars == <<cp_input, cp_parsed>>
ArrayClassVars == <<array_registry, array_resolved, array_type>>
SwitchVars == <<switch_in, switch_out>>
IincVars == <<iinc_in, iinc_out>>
vars == <<LongVars, HeapVars, InitVars, LoadVars, ExecVars, VtableVars, StringVars, ShiftVars, CastVars, ArrayVars, MonitorVars, DepthVars, FieldVars, PayloadVars, ArithVars, NewArrayVars, CloneVars, ParserVars, ArrayClassVars, SwitchVars, IincVars>>

NotLong == <<HeapVars, InitVars, LoadVars, ExecVars, VtableVars, StringVars, ShiftVars, CastVars, ArrayVars, MonitorVars, DepthVars, FieldVars, PayloadVars, ArithVars, NewArrayVars, CloneVars, ParserVars, ArrayClassVars, SwitchVars, IincVars>>
NotHeap == <<LongVars, InitVars, LoadVars, ExecVars, VtableVars, StringVars, ShiftVars, CastVars, ArrayVars, MonitorVars, DepthVars, FieldVars, PayloadVars, ArithVars, NewArrayVars, CloneVars, ParserVars, ArrayClassVars, SwitchVars, IincVars>>
NotInit == <<LongVars, HeapVars, LoadVars, ExecVars, VtableVars, StringVars, ShiftVars, CastVars, ArrayVars, MonitorVars, DepthVars, FieldVars, PayloadVars, ArithVars, NewArrayVars, CloneVars, ParserVars, ArrayClassVars, SwitchVars, IincVars>>
NotLoad == <<LongVars, HeapVars, InitVars, ExecVars, VtableVars, StringVars, ShiftVars, CastVars, ArrayVars, MonitorVars, DepthVars, FieldVars, PayloadVars, ArithVars, NewArrayVars, CloneVars, ParserVars, ArrayClassVars, SwitchVars, IincVars>>
\* the interpreter allocates on the heap (NEW), so its part includes HeapVars
NotExec == <<LongVars, InitVars, LoadVars, VtableVars, StringVars, ShiftVars, CastVars, ArrayVars, MonitorVars, DepthVars, FieldVars, PayloadVars, ArithVars, NewArrayVars, CloneVars, ParserVars, ArrayClassVars, SwitchVars, IincVars>>
NotVtable == <<LongVars, HeapVars, InitVars, LoadVars, ExecVars, StringVars, ShiftVars, CastVars, ArrayVars, MonitorVars, DepthVars, FieldVars, PayloadVars, ArithVars, NewArrayVars, CloneVars, ParserVars, ArrayClassVars, SwitchVars, IincVars>>
NotString == <<LongVars, HeapVars, InitVars, LoadVars, ExecVars, VtableVars, ShiftVars, CastVars, ArrayVars, MonitorVars, DepthVars, FieldVars, PayloadVars, ArithVars, NewArrayVars, CloneVars, ParserVars, ArrayClassVars, SwitchVars, IincVars>>
NotShift == <<LongVars, HeapVars, InitVars, LoadVars, ExecVars, VtableVars, StringVars, CastVars, ArrayVars, MonitorVars, DepthVars, FieldVars, PayloadVars, ArithVars, NewArrayVars, CloneVars, ParserVars, ArrayClassVars, SwitchVars, IincVars>>
NotCast == <<LongVars, HeapVars, InitVars, LoadVars, ExecVars, VtableVars, StringVars, ShiftVars, ArrayVars, MonitorVars, DepthVars, FieldVars, PayloadVars, ArithVars, NewArrayVars, CloneVars, ParserVars, ArrayClassVars, SwitchVars, IincVars>>
NotArray == <<LongVars, HeapVars, InitVars, LoadVars, ExecVars, VtableVars, StringVars, ShiftVars, CastVars, MonitorVars, DepthVars, FieldVars, PayloadVars, ArithVars, NewArrayVars, CloneVars, ParserVars, ArrayClassVars, SwitchVars, IincVars>>
NotMonitor == <<LongVars, HeapVars, InitVars, LoadVars, ExecVars, VtableVars, StringVars, ShiftVars, CastVars, ArrayVars, DepthVars, FieldVars, PayloadVars, ArithVars, NewArrayVars, CloneVars, ParserVars, ArrayClassVars, SwitchVars, IincVars>>
NotDepth == <<LongVars, HeapVars, InitVars, LoadVars, ExecVars, VtableVars, StringVars, ShiftVars, CastVars, ArrayVars, MonitorVars, FieldVars, PayloadVars, ArithVars, NewArrayVars, CloneVars, ParserVars, ArrayClassVars, SwitchVars, IincVars>>
NotField == <<LongVars, HeapVars, InitVars, LoadVars, ExecVars, VtableVars, StringVars, ShiftVars, CastVars, ArrayVars, MonitorVars, DepthVars, PayloadVars, ArithVars, NewArrayVars, CloneVars, ParserVars, ArrayClassVars, SwitchVars, IincVars>>
NotPayload == <<LongVars, HeapVars, InitVars, LoadVars, ExecVars, VtableVars, StringVars, ShiftVars, CastVars, ArrayVars, MonitorVars, DepthVars, FieldVars, ArithVars, NewArrayVars, CloneVars, ParserVars, ArrayClassVars, SwitchVars, IincVars>>
NotArith == <<LongVars, HeapVars, InitVars, LoadVars, ExecVars, VtableVars, StringVars, ShiftVars, CastVars, ArrayVars, MonitorVars, DepthVars, FieldVars, PayloadVars, NewArrayVars, CloneVars, ParserVars, ArrayClassVars, SwitchVars, IincVars>>
NotNewArray == <<LongVars, HeapVars, InitVars, LoadVars, ExecVars, VtableVars, StringVars, ShiftVars, CastVars, ArrayVars, MonitorVars, DepthVars, FieldVars, PayloadVars, ArithVars, CloneVars, ParserVars, ArrayClassVars, SwitchVars, IincVars>>
NotClone == <<LongVars, InitVars, LoadVars, ExecVars, VtableVars, StringVars, ShiftVars, CastVars, ArrayVars, MonitorVars, DepthVars, FieldVars, PayloadVars, ArithVars, NewArrayVars, ParserVars, ArrayClassVars, SwitchVars, IincVars>>
NotParser == <<LongVars, HeapVars, InitVars, LoadVars, ExecVars, VtableVars, StringVars, ShiftVars, CastVars, ArrayVars, MonitorVars, DepthVars, FieldVars, PayloadVars, ArithVars, NewArrayVars, CloneVars, ArrayClassVars, SwitchVars, IincVars>>
NotArrayClass == <<LongVars, HeapVars, InitVars, LoadVars, ExecVars, VtableVars, StringVars, ShiftVars, CastVars, ArrayVars, MonitorVars, DepthVars, FieldVars, PayloadVars, ArithVars, NewArrayVars, CloneVars, ParserVars, SwitchVars, IincVars>>
NotSwitch == <<LongVars, HeapVars, InitVars, LoadVars, ExecVars, VtableVars, StringVars, ShiftVars, CastVars, ArrayVars, MonitorVars, DepthVars, FieldVars, PayloadVars, ArithVars, NewArrayVars, CloneVars, ParserVars, ArrayClassVars, IincVars>>
NotIinc == <<LongVars, HeapVars, InitVars, LoadVars, ExecVars, VtableVars, StringVars, ShiftVars, CastVars, ArrayVars, MonitorVars, DepthVars, FieldVars, PayloadVars, ArithVars, NewArrayVars, CloneVars, ParserVars, ArrayClassVars, SwitchVars>>

(***************************************************************************)
(* Part 1.  64-bit values in two 32-bit slots.                             *)
(* An integer of w bits is the function from bit position to bit, bit 0    *)
(* the least significant and bit w-1 the sign: the casts and shifts of the *)
(* source are then exact at full width.                                    *)
(***************************************************************************)
LongBits == 64
IntBits == 32

I64 == [0..(LongBits - 1) -> {0, 1}]
I32 == [0..(IntBits - 1) -> {0, 1}]

\* `x as i32` of an i64: truncation to the low 32 bits
AsI32(x) == [i \in 0..(IntBits - 1) |-> x[i]]

\* `x as i64` of an i32: sign extension
AsI64(x) == [i \in 0..(LongBits - 1) |-> IF i < IntBits THEN x[i] ELSE x[IntBits - 1]]

\* `x >> 32` of an i64: arithmetic shift right
Shr32(x) ==
    [i \in 0..(LongBits - 1) |->
        IF i + IntBits < LongBits THEN x[i + IntBits] ELSE x[LongBits - 1]]

\* `x << 32` of an i64
Shl32(x) == [i \in 0..(LongBits - 1) |-> IF i >= IntBits THEN x[i - IntBits] ELSE 0]

\* `a | b`
BitOr(a, b) == [i \in DOMAIN a |-> IF a[i] = 1 \/ b[i] = 1 THEN 1 ELSE 0]

\* Variable::put_long: (upper, lower)
put_long(long) == <<AsI32(Shr32(long)), AsI32(long)>>

\* Variable::get_long(pre, suf)
get_long(pre, suf) == BitOr(Shl32(AsI64(pre)), AsI64(suf))

\* The inputs: every i64 whose bits outside VaryBits are zero.
VaryBits == {0, 30, 31, 32, 33, 62, 63}
LongOfSet(S) == [i \in 0..(LongBits - 1) |-> IF i \in S THEN 1 ELSE 0]
LongInputs == {LongOfSet(S) : S \in SUBSET VaryBits}

NoLong == <<>>

LongIdle == long_v = NoLong /\ long_stack = <<>> /\ long_out = NoLong

InitLong ==
    /\ long_v \in LongInputs
    /\ long_stack = <<>>
    /\ long_out = NoLong

\* InterpreterEnv::push_long
push_long ==
    /\ long_stack = <<>>
    /\ long_out = NoLong
    /\ LET pair == put_long(long_v)
       IN long_stack' = Append(Append(long_stack, pair[1]), pair[2])
    /\ UNCHANGED <<long_v, long_out>>
    /\ UNCHANGED NotLong

\* InterpreterEnv::pop_long
pop_long ==
    /\ Len(long_stack) >= 2
    /\ LET n == Len(long_stack)
           i2 == long_stack[n]
           i1 == long_stack[n - 1]
       IN /\ long_out' = get_long(i1, i2)
          /\ long_stack' = SubSeq(long_stack, 1, n - 2)
    /\ UNCHANGED long_v
    /\ UNCHANGED NotLong

(***************************************************************************)
(* Part 2.  The ordinary heap.                                             *)
(* Rust's heap[i] is heap[i + 1] here (sequences start at 1).  An object   *)
(* is identified by ptr, the address of its allocation.                    *)
(***************************************************************************)
MaxAllocs == 4
MaxSize == 2
HeapClasses == {"A", "[I"}

None == [ptr |-> 0, class |-> "", payload |-> <<>>]
is_some(slot) == slot.ptr # 0

HeapIdle == heap = <<>> /\ next_id = 0 /\ heap_ptrs = 0 /\ heap_live = {}

\* Heap::new
InitHeap ==
    /\ heap = <<>>
    /\ next_id = 0
    /\ heap_ptrs = 0
    /\ heap_live = {}

\* Vec::resize_with(id + 1, || None) when heap.len() <= id
resize_with(h, id) ==
    IF Len(h) <= id THEN h \o [k \in 1..(id + 1 - Len(h)) |-> None] ELSE h

\* the while loop of allocate_id_for_obj: the first index >= n holding no object
RECURSIVE advance_next_id(_, _)
advance_next_id(h, n) ==
    IF n < Len(h) /\ is_some(h[n + 1]) THEN advance_next_id(h, n + 1) ELSE n

\* allocate_id_for_obj: <<heap', next_id', returned id>>
allocate_id_for_obj(h, nid, object) ==
    LET id == nid
        h1 == resize_with(h, id)
        h2 == [h1 EXCEPT ![id + 1] = object]
    IN <<h2, advance_next_id(h2, nid), id + 1>>

\* the ids the program holds: returned by an allocation, not yet deallocated
LiveIds == {a.id : a \in heap_live}

\* Heap::allocate, shared by allocate_object and allocate_array
allocate(size, class, init) ==
    /\ heap_ptrs < MaxAllocs
    /\ LET object == [ptr |-> heap_ptrs + 1, class |-> class,
                      payload |-> [k \in 1..size |-> init]]
           r == allocate_id_for_obj(heap, next_id, object)
       IN /\ heap' = r[1]
          /\ next_id' = r[2]
          /\ heap_live' = heap_live \cup {[id |-> r[3], ptr |-> object.ptr]}
    /\ heap_ptrs' = heap_ptrs + 1
    /\ UNCHANGED NotHeap

\* Heap::allocate_object: the initializer of InterpreterEnv::new_object writes 0
allocate_object == \E size \in 1..MaxSize : allocate(size, "A", 0)

\* Heap::allocate_array: elements are T::default()
allocate_array == \E size \in 0..MaxSize : allocate(size, "[I", 0)

\* Heap::clone / Heap::clone_object of the object an id denotes
clone_object ==
    /\ heap_ptrs < MaxAllocs
    /\ \E id \in LiveIds :
        LET obj == heap[id]
            copy == [ptr |-> heap_ptrs + 1, class |-> obj.class, payload |-> obj.payload]
            r == allocate_id_for_obj(heap, next_id, copy)
        IN /\ heap' = r[1]
           /\ next_id' = r[2]
           /\ heap_live' = heap_live \cup {[id |-> r[3], ptr |-> copy.ptr]}
    /\ heap_ptrs' = heap_ptrs + 1
    /\ UNCHANGED NotHeap

\* Heap::deallocate
deallocate ==
    /\ \E id \in LiveIds :
        /\ heap' = [heap EXCEPT ![id] = None]
        /\ next_id' = id
        /\ heap_live' = {a \in heap_live : a.id # id}
    /\ UNCHANGED heap_ptrs
    /\ UNCHANGED NotHeap

(***************************************************************************)
(* The classes of the guest program.  A class file gives the super-class,  *)
(* the interfaces in declaration order, the INTERFACE flag and the         *)
(* methods with their access flags.                                        *)
(***************************************************************************)
Method(name, flags) == [name |-> name, access_flags |-> flags]

ClassFiles ==
    [ Object |-> [super_class |-> "", interfaces |-> <<>>, interface |-> FALSE,
                  methods |-> <<Method("<init>", {"PUBLIC"})>>],
      I      |-> [super_class |-> "Object", interfaces |-> <<>>, interface |-> TRUE,
                  methods |-> <<Method("<clinit>", {"STATIC"}),
                                Method("d", {"PUBLIC"})>>],
      J      |-> [super_class |-> "Object", interfaces |-> <<>>, interface |-> TRUE,
                  methods |-> <<Method("<clinit>", {"STATIC"}),
                                Method("m", {"PUBLIC", "ABSTRACT"})>>],
      A      |-> [super_class |-> "Object", interfaces |-> <<"I", "J">>,
                  interface |-> FALSE,
                  methods |-> <<Method("<init>", {"PUBLIC"}),
                                Method("<clinit>", {"STATIC"})>>],
      B      |-> [super_class |-> "A", interfaces |-> <<>>, interface |-> FALSE,
                  methods |-> <<Method("<init>", {"PUBLIC"}),
                                Method("<clinit>", {"STATIC"})>>] ]

ClassNames == DOMAIN ClassFiles

\* The classes whose initialization the body of each <clinit> triggers
\* (GETSTATIC, PUTSTATIC, NEW, INVOKESTATIC on another class), in order.
ClinitUses ==
    [ Object |-> <<>>, I |-> <<>>, J |-> <<>>, A |-> <<"B">>, B |-> <<>> ]

(***************************************************************************)
(* Part 3.  Class initialization.                                          *)
(***************************************************************************)
InitThreads == {1, 2}
MaxInitCalls == 2

NoOwner == 0
Unlocked == [owner |-> NoOwner, count |-> 0]

no_default_method(c) == FALSE

\* interface.methods.iter().any(|m| !ABSTRACT && !STATIC)
has_default_method(c) ==
    \E k \in 1..Len(ClassFiles[c].methods) :
        /\ "ABSTRACT" \notin ClassFiles[c].methods[k].access_flags
        /\ "STATIC" \notin ClassFiles[c].methods[k].access_flags

\* class.methods.iter().find(|m| m.name == "<clinit>")
has_clinit(c) ==
    \E k \in 1..Len(ClassFiles[c].methods) : ClassFiles[c].methods[k].name = "<clinit>"

never_Init(c) == FALSE

\* clinit_status.get() == ClinitStatus::Init
already_Init(c) == clinit_status[c] = "Init"

\* a lock that never makes a thread wait
lock_never_waits(c, t) == TRUE

\* ReentrantMutex::lock can return: the mutex is free or owned by this thread
can_lock(c, t) == clinit_lock[c].owner \in {NoOwner, t}

lock(m, t) == [owner |-> t, count |-> m.count + 1]

\* dropping the guard
unlock(m) == IF m.count = 1 THEN Unlocked ELSE [m EXCEPT !.count = @ - 1]

Activation(c, late) == [class |-> c, pc |-> "enter", idx |-> 1, late |-> late]

InitIdle ==
    /\ clinit_status = <<>>
    /\ clinit_lock = <<>>
    /\ init_stack = <<>>
    /\ init_ret = <<>>
    /\ init_calls = <<>>
    /\ clinit_runs = <<>>
    /\ clinit_failed = <<>>
    /\ init_completed = <<>>
    /\ init_late_ok = <<>>

\* parse_class: ClinitStatus::NotInit and a free mutex for every class
InitInit ==
    /\ clinit_status = [c \in ClassNames |-> "NotInit"]
    /\ clinit_lock = [c \in ClassNames |-> Unlocked]
    /\ init_stack = [t \in InitThreads |-> <<>>]
    /\ init_ret = [t \in InitThreads |-> "none"]
    /\ init_calls = [t \in InitThreads |-> 0]
    /\ clinit_runs = [c \in ClassNames |-> 0]
    /\ clinit_failed = [c \in ClassNames |-> FALSE]
    /\ init_completed = [c \in ClassNames |-> 0]
    /\ init_late_ok = [c \in ClassNames |-> FALSE]

InitTop(t) == init_stack[t][Len(init_stack[t])]
InitSetTop(t, a) == [init_stack EXCEPT ![t][Len(init_stack[t])] = a]
InitPush(t, a, c) == [init_stack EXCEPT ![t] = Append(InitSetTop(t, a)[t], Activation(c, clinit_failed[c]))]

\* a return of initialize_class with result r, the lock held until here
InitReturn(t, r, lk) ==
    LET a == InitTop(t)
    IN /\ clinit_lock' = [lk EXCEPT ![a.class] = unlock(lk[a.class])]
       /\ init_stack' = [init_stack EXCEPT ![t] = SubSeq(@, 1, Len(@) - 1)]
       /\ init_ret' = [init_ret EXCEPT ![t] = r]
       /\ init_completed' = [init_completed EXCEPT ![a.class] = @ + 1]
       /\ init_late_ok' = [init_late_ok EXCEPT ![a.class] = @ \/ (a.late /\ r = "Ok")]

\* the interpreter reaches an instruction that needs class c initialized
InitCall(t, c) ==
    /\ init_stack[t] = <<>>
    /\ init_calls[t] < MaxInitCalls
    /\ init_calls' = [init_calls EXCEPT ![t] = @ + 1]
    /\ init_stack' = [init_stack EXCEPT ![t] = <<Activation(c, clinit_failed[c])>>]
    /\ init_ret' = [init_ret EXCEPT ![t] = "none"]
    /\ UNCHANGED <<clinit_status, clinit_lock, clinit_runs, clinit_failed,
                   init_completed, init_late_ok>>
    /\ UNCHANGED NotInit

\* initialize_class lines 91-97: take the lock, return if Init, else set Init
InitEnter(t) ==
    /\ init_stack[t] # <<>>
    /\ InitTop(t).pc = "enter"
    /\ LET c == InitTop(t).class
       IN /\ can_lock(c, t)
          /\ IF already_Init(c)
             THEN /\ InitReturn(t, "Ok", [clinit_lock EXCEPT ![c] = lock(clinit_lock[c], t)])
                  /\ UNCHANGED clinit_status
             ELSE /\ clinit_lock' = [clinit_lock EXCEPT ![c] = lock(clinit_lock[c], t)]
                  /\ clinit_status' = [clinit_status EXCEPT ![c] = "Init"]
                  /\ init_stack' = InitSetTop(t, [InitTop(t) EXCEPT !.pc = "super"])
                  /\ UNCHANGED <<init_ret, init_completed, init_late_ok>>
    /\ UNCHANGED <<init_calls, clinit_runs, clinit_failed>>
    /\ UNCHANGED NotInit

\* lines 102-106: not an interface: initialize the super-class
InitSuper(t) ==
    /\ init_stack[t] # <<>>
    /\ InitTop(t).pc = "super"
    /\ LET a == InitTop(t)
           cf == ClassFiles[a.class]
       IN IF ~cf.interface /\ cf.super_class # ""
          THEN init_stack' = InitPush(t, [a EXCEPT !.pc = "super_ret"], cf.super_class)
          ELSE init_stack' = InitSetTop(t, [a EXCEPT !.pc = "interfaces", !.idx = 1])
    /\ init_ret' = [init_ret EXCEPT ![t] = "none"]
    /\ UNCHANGED <<clinit_status, clinit_lock, init_calls, clinit_runs, clinit_failed,
                   init_completed, init_late_ok>>
    /\ UNCHANGED NotInit

\* lines 109-116: the interfaces with a nonstatic, nonabstract method
InitInterfaces(t) ==
    /\ init_stack[t] # <<>>
    /\ InitTop(t).pc = "interfaces"
    /\ LET a == InitTop(t)
           intfs == ClassFiles[a.class].interfaces
       IN IF a.idx > Len(intfs)
          THEN init_stack' = InitSetTop(t, [a EXCEPT !.pc = "clinit"])
          ELSE IF has_default_method(intfs[a.idx])
               THEN init_stack' = InitPush(t, [a EXCEPT !.pc = "interface_ret"], intfs[a.idx])
               ELSE init_stack' = InitSetTop(t, [a EXCEPT !.idx = @ + 1])
    /\ init_ret' = [init_ret EXCEPT ![t] = "none"]
    /\ UNCHANGED <<clinit_status, clinit_lock, init_calls, clinit_runs, clinit_failed,
                   init_completed, init_late_ok>>
    /\ UNCHANGED NotInit

\* the `?` after a nested initialize_class(super_class) or initialize_class(interface)
InitPropagate(t) ==
    /\ init_stack[t] # <<>>
    /\ InitTop(t).pc \in {"super_ret", "interface_ret"}
    /\ init_ret[t] # "none"
    /\ LET a == InitTop(t)
       IN IF init_ret[t] = "Err"
          THEN InitReturn(t, "Err", clinit_lock)
          ELSE /\ init_stack' = InitSetTop(t,
                     IF a.pc = "super_ret"
                     THEN [a EXCEPT !.pc = "interfaces", !.idx = 1]
                     ELSE [a EXCEPT !.pc = "interfaces", !.idx = @ + 1])
               /\ init_ret' = [init_ret EXCEPT ![t] = "none"]
               /\ UNCHANGED <<clinit_lock, init_completed, init_late_ok>>
    /\ UNCHANGED <<clinit_status, init_calls, clinit_runs, clinit_failed>>
    /\ UNCHANGED NotInit

\* lines 119-132: find <clinit> and start executing it on a new frame group
InitClinit(t) ==
    /\ init_stack[t] # <<>>
    /\ InitTop(t).pc = "clinit"
    /\ LET a == InitTop(t)
       IN IF has_clinit(a.class)
          THEN /\ clinit_runs' = [clinit_runs EXCEPT ![a.class] = @ + 1]
               /\ init_stack' = InitSetTop(t, [a EXCEPT !.pc = "body", !.idx = 1])
               /\ init_ret' = [init_ret EXCEPT ![t] = "none"]
               /\ UNCHANGED <<clinit_lock, init_completed, init_late_ok>>
          ELSE /\ InitReturn(t, "Ok", clinit_lock)
               /\ UNCHANGED clinit_runs
    /\ UNCHANGED <<clinit_status, init_calls, clinit_failed>>
    /\ UNCHANGED NotInit

\* init_thread.execute()?: the body of <clinit>.  It triggers the
\* initialization of the classes it uses, and ends normally or by throwing.
InitBody(t) ==
    /\ init_stack[t] # <<>>
    /\ InitTop(t).pc = "body"
    /\ LET a == InitTop(t)
           uses == ClinitUses[a.class]
       IN \/ /\ a.idx <= Len(uses)
             /\ init_stack' = InitPush(t, [a EXCEPT !.pc = "body_ret"], uses[a.idx])
             /\ init_ret' = [init_ret EXCEPT ![t] = "none"]
             /\ UNCHANGED <<clinit_lock, clinit_failed, init_completed, init_late_ok>>
          \/ /\ a.idx > Len(uses)
             /\ InitReturn(t, "Ok", clinit_lock)
             /\ UNCHANGED clinit_failed
          \/ /\ a.idx > Len(uses)
             /\ clinit_failed' = [clinit_failed EXCEPT ![a.class] = TRUE]
             /\ InitReturn(t, "Err", clinit_lock)
    /\ UNCHANGED <<clinit_status, init_calls, clinit_runs>>
    /\ UNCHANGED NotInit

\* the body of <clinit> resumes after a nested initialization: an error of
\* the nested call is an exception in the body, caught there or not
InitBodyResume(t) ==
    /\ init_stack[t] # <<>>
    /\ InitTop(t).pc = "body_ret"
    /\ init_ret[t] # "none"
    /\ LET a == InitTop(t)
       IN \/ /\ init_stack' = InitSetTop(t, [a EXCEPT !.pc = "body", !.idx = @ + 1])
             /\ init_ret' = [init_ret EXCEPT ![t] = "none"]
             /\ UNCHANGED <<clinit_lock, clinit_failed, init_completed, init_late_ok>>
          \/ /\ init_ret[t] = "Err"
             /\ clinit_failed' = [clinit_failed EXCEPT ![a.class] = TRUE]
             /\ InitReturn(t, "Err", clinit_lock)
    /\ UNCHANGED <<clinit_status, init_calls, clinit_runs>>
    /\ UNCHANGED NotInit

(***************************************************************************)
(* Part 4.  The bootstrap class loader.                                    *)
(* A registry cell is absent (no entry yet), empty, running (one thread is *)
(* inside get_or_try_init's closure) or set.  A runtime class is           *)
(* identified by ptr, the address Arc::new gave it.                        *)
(***************************************************************************)
LoadThreads == {1, 2}
MaxLoadCalls == 2

NoClass == [ptr |-> 0, class_name |-> "", super_class |-> 0, interfaces |-> <<>>]
AbsentCell == [state |-> "absent", class |-> NoClass]

LoadActivation(name) ==
    [class_name |-> name, pc |-> "entry", idx |-> 1, super_class |-> 0,
     interfaces |-> <<>>]

LoadIdle ==
    /\ class_registry = <<>>
    /\ class_ptrs = 0
    /\ load_stack = <<>>
    /\ load_ret = <<>>
    /\ load_calls = <<>>
    /\ registered = <<>>
    /\ load_got = <<>>
    /\ define_count = <<>>
    /\ load_raced = <<>>

\* BootstrapClassLoader::new: an empty registry
InitLoad ==
    /\ class_registry = [n \in ClassNames |-> AbsentCell]
    /\ class_ptrs = 0
    /\ load_stack = [t \in LoadThreads |-> <<>>]
    /\ load_ret = [t \in LoadThreads |-> NoClass]
    /\ load_calls = [t \in LoadThreads |-> 0]
    /\ registered = [n \in ClassNames |-> {}]
    /\ load_got = [t \in LoadThreads |-> [n \in ClassNames |-> {}]]
    /\ define_count = [n \in ClassNames |-> 0]
    /\ load_raced = [n \in ClassNames |-> FALSE]

LoadTop(t) == load_stack[t][Len(load_stack[t])]
LoadSetTop(t, a) == [load_stack EXCEPT ![t][Len(load_stack[t])] = a]
LoadPush(t, a, name) ==
    [load_stack EXCEPT ![t] = Append(LoadSetTop(t, a)[t], LoadActivation(name))]

once_cell_never_running(name) == FALSE

\* OnceCell: another initializer is inside the closure, so this caller waits
once_cell_running(name) == class_registry[name].state = "running"

\* Ok(Arc::clone(class)): resolve_class returns class to its caller
LoadReturn(t, class) ==
    LET a == LoadTop(t)
    IN /\ load_stack' = [load_stack EXCEPT ![t] = SubSeq(@, 1, Len(@) - 1)]
       /\ load_ret' = [load_ret EXCEPT ![t] = class]
       /\ load_got' = [load_got EXCEPT ![t][a.class_name] = @ \cup {class.ptr}]

\* a caller asks for the class of a name
LoadCall(t, name) ==
    /\ load_stack[t] = <<>>
    /\ load_calls[t] < MaxLoadCalls
    /\ load_calls' = [load_calls EXCEPT ![t] = @ + 1]
    /\ load_stack' = [load_stack EXCEPT ![t] = <<LoadActivation(name)>>]
    /\ load_ret' = [load_ret EXCEPT ![t] = NoClass]
    /\ UNCHANGED <<class_registry, class_ptrs, registered, load_got, define_count,
                   load_raced>>
    /\ UNCHANGED NotLoad

\* resolve_class lines 69-74: class_registry.entry(name).or_default()
LoadEntry(t) ==
    /\ load_stack[t] # <<>>
    /\ LoadTop(t).pc = "entry"
    /\ LET name == LoadTop(t).class_name
       IN class_registry' =
              IF class_registry[name].state = "absent"
              THEN [class_registry EXCEPT ![name].state = "empty"]
              ELSE class_registry
    /\ load_stack' = LoadSetTop(t, [LoadTop(t) EXCEPT !.pc = "init"])
    /\ UNCHANGED <<class_ptrs, load_ret, load_calls, registered, load_got,
                   define_count, load_raced>>
    /\ UNCHANGED NotLoad

\* get_or_try_init finds the closure of another caller running, and parks
LoadWait(t) ==
    /\ load_stack[t] # <<>>
    /\ LoadTop(t).pc = "init"
    /\ once_cell_running(LoadTop(t).class_name)
    /\ load_stack' = LoadSetTop(t, [LoadTop(t) EXCEPT !.pc = "wait"])
    /\ load_raced' = [load_raced EXCEPT ![LoadTop(t).class_name] = TRUE]
    /\ UNCHANGED <<class_registry, class_ptrs, load_ret, load_calls, registered,
                   load_got, define_count>>
    /\ UNCHANGED NotLoad

\* resolve_class line 76: class_cell.get_or_try_init(|| self.define_class(name))
LoadGetOrInit(t) ==
    /\ load_stack[t] # <<>>
    /\ LoadTop(t).pc \in {"init", "wait"}
    /\ LET a == LoadTop(t)
           cell == class_registry[a.class_name]
       IN /\ ~once_cell_running(a.class_name)
          /\ IF cell.state = "set"
             THEN /\ LoadReturn(t, cell.class)
                  /\ UNCHANGED class_registry
             ELSE /\ class_registry' = [class_registry EXCEPT ![a.class_name].state = "running"]
                  /\ load_stack' = LoadSetTop(t, [a EXCEPT !.pc = "super"])
                  /\ UNCHANGED <<load_ret, load_got>>
    /\ UNCHANGED <<class_ptrs, load_calls, registered, define_count, load_raced>>
    /\ UNCHANGED NotLoad

\* define_class line 153, load_super_class: index 0 is java.lang.Object
LoadSuper(t) ==
    /\ load_stack[t] # <<>>
    /\ LoadTop(t).pc = "super"
    /\ LET a == LoadTop(t)
           super == ClassFiles[a.class_name].super_class
       IN IF super = ""
          THEN load_stack' = LoadSetTop(t, [a EXCEPT !.pc = "interfaces", !.idx = 1])
          ELSE load_stack' = LoadPush(t, [a EXCEPT !.pc = "super_ret"], super)
    /\ load_ret' = [load_ret EXCEPT ![t] = NoClass]
    /\ UNCHANGED <<class_registry, class_ptrs, load_calls, registered, load_got,
                   define_count, load_raced>>
    /\ UNCHANGED NotLoad

\* define_class line 154, load_interfaces: resolve each in declaration order
LoadInterfaces(t) ==
    /\ load_stack[t] # <<>>
    /\ LoadTop(t).pc = "interfaces"
    /\ LoadTop(t).idx <= Len(ClassFiles[LoadTop(t).class_name].interfaces)
    /\ LET a == LoadTop(t)
       IN load_stack' = LoadPush(t, [a EXCEPT !.pc = "interface_ret"],
                                 ClassFiles[a.class_name].interfaces[a.idx])
    /\ load_ret' = [load_ret EXCEPT ![t] = NoClass]
    /\ UNCHANGED <<class_registry, class_ptrs, load_calls, registered, load_got,
                   define_count, load_raced>>
    /\ UNCHANGED NotLoad

\* the nested resolve_class has returned: class.super_class.replace(loaded),
\* class.interfaces.push(loaded)
LoadResume(t) ==
    /\ load_stack[t] # <<>>
    /\ LoadTop(t).pc \in {"super_ret", "interface_ret"}
    /\ load_ret[t] # NoClass
    /\ LET a == LoadTop(t)
       IN load_stack' = LoadSetTop(t,
              IF a.pc = "super_ret"
              THEN [a EXCEPT !.pc = "interfaces", !.idx = 1,
                             !.super_class = load_ret[t].ptr]
              ELSE [a EXCEPT !.pc = "interfaces", !.idx = @ + 1,
                             !.interfaces = Append(@, load_ret[t].ptr)])
    /\ load_ret' = [load_ret EXCEPT ![t] = NoClass]
    /\ UNCHANGED <<class_registry, class_ptrs, load_calls, registered, load_got,
                   define_count, load_raced>>
    /\ UNCHANGED NotLoad

\* define_class lines 156-191: Arc::new(class); the cell stores it and
\* resolve_class returns it
LoadDefine(t) ==
    /\ load_stack[t] # <<>>
    /\ LoadTop(t).pc = "interfaces"
    /\ LoadTop(t).idx > Len(ClassFiles[LoadTop(t).class_name].interfaces)
    /\ LET a == LoadTop(t)
           class == [ptr |-> class_ptrs + 1, class_name |-> a.class_name,
                     super_class |-> a.super_class, interfaces |-> a.interfaces]
       IN /\ class_registry' = [class_registry EXCEPT
                                   ![a.class_name] = [state |-> "set", class |-> class]]
          /\ registered' = [registered EXCEPT ![a.class_name] = @ \cup {class.ptr}]
          /\ define_count' = [define_count EXCEPT ![a.class_name] = @ + 1]
          /\ LoadReturn(t, class)
    /\ class_ptrs' = class_ptrs + 1
    /\ UNCHANGED <<load_calls, load_raced>>
    /\ UNCHANGED NotLoad

(***************************************************************************)
(* Part 5.  Thread::execute, the interpreter and Thread::handle_exception. *)
(* code[pc] of the source is code[pc + 1] here, locals[n] is               *)
(* locals[n + 1], stack[i] is stack[i + 1].  A slot is the 32-bit value it *)
(* holds; the null reference is 0.  An opcode is its mnemonic, an operand  *)
(* byte is a number.                                                       *)
(***************************************************************************)
MaxTableLen == 2
MaxParams == 2

ExceptionTableItem(start_pc, end_pc, handler_pc, catch_type) ==
    [start_pc |-> start_pc, end_pc |-> end_pc, handler_pc |-> handler_pc,
     catch_type |-> catch_type]

\* catch_type: None is <<>>, Some(class) is <<class>>;
\* return_type: None (void) is <<>>
MethodInfo(code, exception_table, parameters, return_type, vtable_index) ==
    [code |-> code, exception_table |-> exception_table, parameters |-> parameters,
     return_type |-> return_type, vtable_index |-> vtable_index]

\* Class.super_class of the throwable classes the guest names
ThrowableSuper ==
    [ Object |-> "", Throwable |-> "Object", Exception |-> "Throwable",
      RuntimeException |-> "Exception", ArithmeticException |-> "RuntimeException",
      NullPointerException |-> "RuntimeException" ]

\* static int f(int a, int b) { try { return a / b; } catch (..) { return -1; }
\*                                                    catch (..) { return 2; } }
FCode ==
    <<"ILOAD_0", "ILOAD_1", "IDIV", "IRETURN",
      "ASTORE_2", "ICONST_M1", "IRETURN",
      "ASTORE_2", "ICONST_2", "IRETURN">>

FEntries ==
    { ExceptionTableItem(0, 4, 4, <<"ArithmeticException">>),
      ExceptionTableItem(0, 4, 7, <<"Exception">>),
      ExceptionTableItem(0, 4, 7, <<>>),
      ExceptionTableItem(0, 4, 7, <<"NullPointerException">>),
      ExceptionTableItem(3, 4, 7, <<"ArithmeticException">>) }

Tables(entries) == UNION {[1..n -> entries] : n \in 0..MaxTableLen}

\* static void main() { try { r = f(10, d); } catch (..) { } }
DivMainCode(divisor_op) ==
    <<"BIPUSH", 10, divisor_op, "INVOKESTATIC", 0, 1, "ISTORE_1", "RETURN",
      "ASTORE_1", "RETURN">>

DivMainTables ==
    { <<>>,
      <<ExceptionTableItem(0, 7, 8, <<"ArithmeticException">>)>>,
      <<ExceptionTableItem(0, 7, 8, <<>>)>> }

ConstantPool == <<"f", "Main", "m">>

DivGuests ==
    { [constant_pool |-> ConstantPool,
       methods |->
         [main |-> MethodInfo(DivMainCode(d), mt, <<>>, <<>>, -1),
          f    |-> MethodInfo(FCode, ft, <<"I", "I">>, <<"I">>, -1),
          m    |-> MethodInfo(<<"RETURN">>, <<>>, <<>>, <<>>, -1)]] :
      d \in {"ICONST_0", "ICONST_2"}, mt \in DivMainTables, ft \in Tables(FEntries) }

\* the descriptors of the instance method m: I is int, J is long
Descriptors == UNION {[1..n -> {"I", "J"}] : n \in 0..MaxParams}

\* the code pushing one argument per parameter: ICONST_0 or ICONST_1 for an
\* int, LCONST_0 or LCONST_1 for a long
ArgCode(parameters, bits) ==
    [k \in 1..Len(parameters) |->
        IF parameters[k] = "J"
        THEN (IF bits[k] = 0 THEN "LCONST_0" ELSE "LCONST_1")
        ELSE (IF bits[k] = 0 THEN "ICONST_0" ELSE "ICONST_1")]

\* static void main() { try { receiver.m(args); } catch (..) { } }
InvokeMainCode(receiver_code, arg_code, invoke_op) ==
    receiver_code \o arg_code \o <<invoke_op, 0, 3, "RETURN", "ASTORE_1", "RETURN">>

InvokeGuests ==
    { [constant_pool |-> ConstantPool,
       methods |->
         [main |-> MethodInfo(InvokeMainCode(rc, ArgCode(ps, bits), op),
                              IF caught = 0 THEN <<>>
                              ELSE <<ExceptionTableItem(0, Len(rc) + Len(ps) + 3,
                                                        Len(rc) + Len(ps) + 4,
                                                        <<"NullPointerException">>)>>,
                              <<>>, <<>>, -1),
          f    |-> MethodInfo(FCode, <<>>, <<"I", "I">>, <<"I">>, -1),
          m    |-> MethodInfo(<<"RETURN">>, <<>>, ps, <<>>, vi)]] :
      rc \in {<<"ACONST_NULL">>, <<"NEW", 0, 2>>},
      ps \in Descriptors,
      bits \in [1..MaxParams -> {0, 1}],
      op \in {"INVOKESPECIAL", "INVOKEVIRTUAL"},
      vi \in {-1, 0},
      caught \in {0, 1} }

\* static int f(int a, int b) { return a + b; }, and the same method compiled
\* so that a copy of a stays on the operand stack under the sum
SumCodes ==
    { <<"ILOAD_0", "ILOAD_1", "IADD", "IRETURN">>,
      <<"ILOAD_0", "ILOAD_0", "ILOAD_1", "IADD", "IRETURN">> }

\* static void main() { [int x = 7 +] f(a, b); }
SumMainCode(kept, a, b) ==
    kept \o <<"BIPUSH", a, "BIPUSH", b, "INVOKESTATIC", 0, 1>>
         \o [k \in 1..(Len(kept) \div 2 + 1) |-> "ISTORE_1"] \o <<"RETURN">>

SumGuests ==
    { [constant_pool |-> ConstantPool,
       methods |->
         [main |-> MethodInfo(SumMainCode(kept, a, b), <<>>, <<>>, <<>>, -1),
          f    |-> MethodInfo(code, <<>>, <<"I", "I">>, <<"I">>, -1),
          m    |-> MethodInfo(<<"RETURN">>, <<>>, <<>>, <<>>, -1)]] :
      kept \in {<<>>, <<"BIPUSH", 7>>}, a \in {10, -3}, b \in {20}, code \in SumCodes }

Guests == DivGuests \cup InvokeGuests \cup SumGuests

\* Exception::new_vm: the exception a VM check raises carries the exception
\* class and no object.  The interpreter's raise sites name the class.
new_vm(exception_type) ==
    [kind |-> "VmException", exception_type |-> exception_type, obj_ref |-> 0]

NoException == [kind |-> "", exception_type |-> "", obj_ref |-> 0]

Frame(method, locals, stack) == [method |-> method, locals |-> locals, stack |-> stack]

ExecIdle ==
    /\ guest = <<>>
    /\ top_frame = <<>>
    /\ pc = 0
    /\ exec_result = ""
    /\ exec_err = <<>>
    /\ raised = <<>>
    /\ handler_entry = <<>>
    /\ delivered = <<>>
    /\ invoke_log = <<>>

\* Thread::new, new_main_frame (top_frame is None, so no arguments are moved
\* and the return address is 0) and the first line of Thread::execute
InitExec ==
    /\ guest \in Guests
    /\ top_frame = <<Frame("main", <<>>, <<0, 0>>)>>
    /\ pc = 0
    /\ exec_result = "running"
    /\ exec_err = NoException
    /\ raised = <<>>
    /\ handler_entry = <<>>
    /\ delivered = <<>>
    /\ invoke_log = <<>>

\* is_same_or_sub_class_of: walk source's super-class chain, comparing names
RECURSIVE is_same_or_sub_class_of(_, _)
is_same_or_sub_class_of(source, target) ==
    IF source = target THEN TRUE
    ELSE IF ThrowableSuper[source] # ""
         THEN is_same_or_sub_class_of(ThrowableSuper[source], target)
         ELSE FALSE

\* Heap::get(id) finds an object (otherwise it panics)
heap_has(id) == id >= 1 /\ id <= Len(heap) /\ is_some(heap[id])

\* handle_exception lines 472-489: the loop over frame.exception_table from
\* item i on, handler being the value assigned so far
RECURSIVE scan_exception_table(_, _, _, _, _)
scan_exception_table(table, i, at_pc, exp_class, handler) ==
    IF i > Len(table) THEN handler
    ELSE LET item == table[i]
         IN IF ~(item.start_pc <= at_pc /\ at_pc < item.end_pc)
            THEN scan_exception_table(table, i + 1, at_pc, exp_class, handler)
            ELSE IF item.catch_type # <<>>
                 THEN IF ~is_same_or_sub_class_of(exp_class, item.catch_type[1])
                      THEN scan_exception_table(table, i + 1, at_pc, exp_class, handler)
                      ELSE scan_exception_table(table, i + 1, at_pc, exp_class,
                                                item.handler_pc)
                 ELSE item.handler_pc

\* (upper << 32) | lower of two return-address slots; upper is 0 for every
\* address below 2^32
return_address(upper, lower) == IF upper = 0 THEN lower ELSE -1

\* Thread::handle_exception(exception, frame, pc) with self.top_frame =
\* self_top; previous_frame is frame.previous_frame.  The result gives
\* the NativeResult, pc and self.top_frame afterwards.
RECURSIVE handle_exception(_, _, _, _, _)
handle_exception(exception, frame, previous_frame, at_pc, self_top) ==
    LET exp_class == IF exception.kind = "VmException"
                     THEN exception.exception_type
                     ELSE heap[exception.obj_ref].class
        obj_ref == IF exception.kind = "VmException" THEN 0 ELSE exception.obj_ref
        handler == scan_exception_table(guest.methods[frame.method].exception_table,
                                        1, at_pc, exp_class, -1)
    IN IF handler = -1
       THEN IF self_top # <<>> /\ guest.methods[Head(self_top).method].code # <<>>
            THEN handle_exception(exception, Head(self_top), Tail(self_top),
                                  return_address(Head(self_top).stack[1],
                                                 Head(self_top).stack[2]),
                                  <<>>)
            ELSE [result |-> "Err", pc |-> at_pc, top_frame |-> <<>>,
                  method |-> "", handler_pc |-> -1, at_pc |-> at_pc]
       ELSE [result |-> "Ok", pc |-> handler,
             top_frame |-> <<[frame EXCEPT !.stack = <<obj_ref>>]>> \o previous_frame,
             method |-> frame.method, handler_pc |-> handler, at_pc |-> at_pc]

\* the number of stack slots new_frame_with_method_info moves into locals
param_size(parameters, need_this) ==
    Len(SelectSeq(parameters, LAMBDA p : p = "J")) + Len(parameters)
        + (IF need_this THEN 1 ELSE 0)

\* new_frame_with_method_info with a caller frame: the new top_frame
new_frame_with_method_info(frames, method, return_addr, need_this) ==
    LET previous == Head(frames)
        n == param_size(guest.methods[method].parameters, need_this)
        len == Len(previous.stack)
        locals == SubSeq(previous.stack, len - n + 1, len)
        drained == [previous EXCEPT !.stack = SubSeq(previous.stack, 1, len - n)]
    IN <<Frame(method, locals, <<0, return_addr>>), drained>> \o Tail(frames)

TopCode == guest.methods[Head(top_frame).method].code

\* the interpreter is inside Thread::execute's loop with a frame to run and
\* an instruction to fetch
Running == exec_result = "running" /\ top_frame # <<>> /\ pc + 1 \in DOMAIN TopCode

\* let op = self.frame.code[*self.pc]
Op == TopCode[pc + 1]

\* a Rust panic (Option::unwrap on None, an index out of bounds): the thread dies
Panic ==
    /\ exec_result' = "panic"
    /\ UNCHANGED <<top_frame, pc, exec_err, raised, handler_entry, delivered>>

\* Next::Exception(exception) out of InterpreterEnv::execute with the frame as
\* the instruction left it: Thread::execute has taken the frame out of
\* self.top_frame, so handle_exception finds self.top_frame empty
Throw(exception, frame, at_pc) ==
    LET r == handle_exception(exception, frame, Tail(top_frame), at_pc, <<>>)
    IN /\ raised' = [exception |-> exception, frames |-> <<frame>> \o Tail(top_frame),
                     pc |-> at_pc]
       /\ top_frame' = r.top_frame
       /\ pc' = r.pc
       /\ IF r.result = "Err"
          THEN /\ exec_result' = "Err"
               /\ exec_err' = exception
               /\ UNCHANGED handler_entry
          ELSE /\ handler_entry' = [method |-> r.method, handler_pc |-> r.handler_pc,
                                    at_pc |-> r.at_pc, exception |-> exception,
                                    stack |-> Head(r.top_frame).stack]
               /\ UNCHANGED <<exec_result, exec_err>>
       /\ UNCHANGED delivered

\* the values ICONST_<i>, ACONST_NULL and LCONST_<l> push
PushValues ==
    [ ICONST_M1 |-> <<-1>>, ICONST_0 |-> <<0>>, ICONST_1 |-> <<1>>, ICONST_2 |-> <<2>>,
      ACONST_NULL |-> <<0>>, LCONST_0 |-> <<0, 0>>, LCONST_1 |-> <<0, 1>> ]

\* ICONST_M1 .. ICONST_2, ACONST_NULL, LCONST_0, LCONST_1
ExecConst ==
    /\ Running
    /\ Op \in DOMAIN PushValues
    /\ top_frame' = [top_frame EXCEPT ![1].stack = @ \o PushValues[Op]]
    /\ pc' = pc + 1
    /\ UNCHANGED <<guest, exec_result, exec_err, raised, handler_entry, delivered,
                   invoke_log>>
    /\ UNCHANGED <<HeapVars, NotExec>>

\* BIPUSH: get_i8_args advances pc past the operand
ExecBipush ==
    /\ Running
    /\ Op = "BIPUSH"
    /\ top_frame' = [top_frame EXCEPT ![1].stack = Append(@, TopCode[pc + 2])]
    /\ pc' = pc + 2
    /\ UNCHANGED <<guest, exec_result, exec_err, raised, handler_entry, delivered,
                   invoke_log>>
    /\ UNCHANGED <<HeapVars, NotExec>>

LoadIndex == [ILOAD_0 |-> 0, ILOAD_1 |-> 1]
StoreIndex == [ASTORE_1 |-> 1, ASTORE_2 |-> 2, ISTORE_1 |-> 1]

\* ILOAD_<n>: load_n
ExecLoad ==
    /\ Running
    /\ Op \in DOMAIN LoadIndex
    /\ LET n == LoadIndex[Op]
           frame == Head(top_frame)
       IN IF n + 1 > Len(frame.locals)
          THEN Panic
          ELSE /\ top_frame' = [top_frame EXCEPT ![1].stack = Append(@, frame.locals[n + 1])]
               /\ pc' = pc + 1
               /\ UNCHANGED <<exec_result, exec_err, raised, handler_entry, delivered>>
    /\ UNCHANGED <<guest, invoke_log>>
    /\ UNCHANGED <<HeapVars, NotExec>>

\* ASTORE_<n>, ISTORE_<n>: store_n, which grows locals to n + 1 slots
ExecStore ==
    /\ Running
    /\ Op \in DOMAIN StoreIndex
    /\ LET n == StoreIndex[Op]
           frame == Head(top_frame)
           len == Len(frame.stack)
           grown == IF Len(frame.locals) < n + 1
                    THEN frame.locals \o [k \in 1..(n + 1 - Len(frame.locals)) |-> 0]
                    ELSE frame.locals
       IN IF len = 0
          THEN Panic
          ELSE /\ top_frame' = [top_frame EXCEPT
                                   ![1].stack = SubSeq(frame.stack, 1, len - 1),
                                   ![1].locals = [grown EXCEPT ![n + 1] = frame.stack[len]]]
               /\ pc' = pc + 1
               /\ UNCHANGED <<exec_result, exec_err, raised, handler_entry, delivered>>
    /\ UNCHANGED <<guest, invoke_log>>
    /\ UNCHANGED <<HeapVars, NotExec>>

\* i32::wrapping_add
i32_wrapping_add(a, b) ==
    IF b > 0 /\ a > 2147483647 - b
    THEN (a - 2147483647 - 1) + (b - 2147483647 - 1)
    ELSE IF b < 0 /\ a < (-2147483647 - 1) - b
         THEN (a + 2147483647 + 1) + (b + 2147483647 + 1)
         ELSE a + b

\* `a + b` of two i32: the sum, <<"overflow">> when it is not an i32
i32_add(a, b) ==
    IF (b > 0 /\ a > 2147483647 - b) \/ (b < 0 /\ a < (-2147483647 - 1) - b)
    THEN <<"overflow">>
    ELSE <<"ok", a + b>>

\* IADD: pop a, pop b, push a.wrapping_add(b)
ExecIadd ==
    /\ Running
    /\ Op = "IADD"
    /\ LET frame == Head(top_frame)
           len == Len(frame.stack)
       IN IF len < 2
          THEN Panic
          ELSE /\ top_frame' = [top_frame EXCEPT
                        ![1].stack = Append(SubSeq(frame.stack, 1, len - 2),
                                            i32_wrapping_add(frame.stack[len],
                                                             frame.stack[len - 1]))]
               /\ pc' = pc + 1
               /\ UNCHANGED <<exec_result, exec_err, raised, handler_entry, delivered>>
    /\ UNCHANGED <<guest, invoke_log>>
    /\ UNCHANGED <<HeapVars, NotExec>>

\* let op = self.frame.code[*self.pc] with pc outside the code: the index
\* is out of bounds
ExecFetchPanic ==
    /\ exec_result = "running"
    /\ top_frame # <<>>
    /\ pc + 1 \notin DOMAIN TopCode
    /\ Panic
    /\ UNCHANGED <<guest, invoke_log>>
    /\ UNCHANGED <<HeapVars, NotExec>>

\* (byte1 << 8) | byte2 of the two operand bytes after the opcode
get_u16_args == TopCode[pc + 2] * 256 + TopCode[pc + 3]

\* NEW: new_object resolves the class (already initialized: it is the main
\* class), allocates the object and pushes its identifier
ExecNew ==
    /\ Running
    /\ Op = "NEW"
    /\ LET object == [ptr |-> heap_ptrs + 1, class |-> guest.constant_pool[get_u16_args],
                      payload |-> <<>>]
           r == allocate_id_for_obj(heap, next_id, object)
       IN /\ heap' = r[1]
          /\ next_id' = r[2]
          /\ heap_live' = heap_live \cup {[id |-> r[3], ptr |-> object.ptr]}
          /\ top_frame' = [top_frame EXCEPT ![1].stack = Append(@, r[3])]
    /\ heap_ptrs' = heap_ptrs + 1
    /\ pc' = pc + 3
    /\ UNCHANGED <<guest, exec_result, exec_err, raised, handler_entry, delivered,
                   invoke_log>>
    /\ UNCHANGED NotExec

\* i32::wrapping_div: the quotient truncated toward zero
wrapping_div(b, a) ==
    LET q == (IF b < 0 THEN -b ELSE b) \div (IF a < 0 THEN -a ELSE a)
    IN IF (b < 0) = (a < 0) THEN q ELSE -q

\* IDIV
ExecIdiv ==
    /\ Running
    /\ Op = "IDIV"
    /\ LET frame == Head(top_frame)
           len == Len(frame.stack)
       IN IF len < 2
          THEN Panic
          ELSE LET a == frame.stack[len]
                   b == frame.stack[len - 1]
                   popped == [frame EXCEPT !.stack = SubSeq(frame.stack, 1, len - 2)]
               IN IF a = 0
                  THEN Throw(new_vm("ArithmeticException"), popped, pc)
                  ELSE /\ top_frame' = [top_frame EXCEPT
                                ![1].stack = Append(popped.stack, wrapping_div(b, a))]
                       /\ pc' = pc + 1
                       /\ UNCHANGED <<exec_result, exec_err, raised, handler_entry,
                                      delivered>>
    /\ UNCHANGED <<guest, invoke_log>>
    /\ UNCHANGED <<HeapVars, NotExec>>

\* the method a Methodref of the constant pool resolves to: every method of
\* the guest is declared in the main class, so resolution finds it there
resolve_static_method(cp_index) == guest.constant_pool[cp_index]
resolve_method_statically(cp_index) == guest.constant_pool[cp_index]

\* INVOKESTATIC, then Thread::execute's Next::InvokeStatic arm: the class to
\* invoke is the main class, which new_main_frame has initialized
ExecInvokeStatic ==
    /\ Running
    /\ Op = "INVOKESTATIC"
    /\ LET method == resolve_static_method(get_u16_args)
           need == param_size(guest.methods[method].parameters, FALSE)
       IN IF Len(Head(top_frame).stack) < need
          THEN Panic
          ELSE /\ top_frame' = new_frame_with_method_info(top_frame, method,
                                                         (pc + 2) + 1, FALSE)
               /\ pc' = 0
               /\ UNCHANGED <<exec_result, exec_err, raised, handler_entry, delivered>>
    /\ UNCHANGED <<guest, invoke_log>>
    /\ UNCHANGED <<HeapVars, NotExec>>

\* INVOKESPECIAL | INVOKEVIRTUAL, then Thread::execute's Next::InvokeSpecial arm
ExecInvokeSpecial ==
    /\ Running
    /\ Op \in {"INVOKESPECIAL", "INVOKEVIRTUAL"}
    /\ LET frame == Head(top_frame)
           method == guest.constant_pool[get_u16_args]
           parameters == guest.methods[method].parameters
           \* let param_size = method_ref.name_and_type.descriptor.parameters.len()
           n == Len(parameters)
           at == Len(frame.stack) - n - 1
           need == param_size(parameters, TRUE)
       IN IF at < 0
          THEN Panic /\ UNCHANGED invoke_log
          ELSE LET this == frame.stack[at + 1]
               IN /\ invoke_log' = [op |-> Op, stack |-> frame.stack,
                                    parameters |-> parameters, this |-> this,
                                    npe |-> (this = 0)]
                  /\ IF this = 0
                     THEN Throw(new_vm("NullPointerException"), frame, pc + 2)
                     ELSE IF \/ Len(frame.stack) < need
                             \/ /\ Op = "INVOKEVIRTUAL"
                                /\ guest.methods[resolve_method_statically(get_u16_args)].vtable_index >= 0
                                /\ ~heap_has(this)
                          THEN Panic
                          ELSE /\ top_frame' = new_frame_with_method_info(
                                                   top_frame, method, (pc + 2) + 1, TRUE)
                               /\ pc' = 0
                               /\ UNCHANGED <<exec_result, exec_err, raised,
                                              handler_entry, delivered>>
    /\ UNCHANGED guest
    /\ UNCHANGED <<HeapVars, NotExec>>

\* RETURN, IRETURN (v1 popped first, then pop_return_addr), then
\* Thread::execute's Next::Return arm; with no frame left the loop ends
\* and execute returns Ok
ExecReturn ==
    /\ Running
    /\ Op \in {"RETURN", "IRETURN"}
    /\ LET frame == Head(top_frame)
           len == Len(frame.stack)
           values == IF Op = "IRETURN" THEN 1 ELSE 0
       IN IF len < values + 2
          THEN Panic
          ELSE LET v1 == frame.stack[len]
                   lower == frame.stack[len - values]
                   upper == frame.stack[len - values - 1]
                   return_pc == return_address(upper, lower)
                   is_void == guest.methods[frame.method].return_type = <<>>
                   previous == Tail(top_frame)
                   pushes == previous # <<>> /\ ~is_void
               IN /\ top_frame' = IF pushes
                                  THEN [previous EXCEPT ![1].stack = Append(@, v1)]
                                  ELSE previous
                  /\ pc' = return_pc
                  /\ delivered' = IF pushes
                                  THEN Append(delivered,
                                              [from |-> frame.method, value |-> v1,
                                               return_pc |-> return_pc])
                                  ELSE delivered
                  /\ exec_result' = IF previous = <<>> THEN "Ok" ELSE "running"
                  /\ UNCHANGED <<exec_err, raised, handler_entry>>
    /\ UNCHANGED <<guest, invoke_log>>
    /\ UNCHANGED <<HeapVars, NotExec>>

(***************************************************************************)
(* Part 6.  build_vtable and virtual dispatch.                             *)
(* Method and vtable indexes keep the source's numbering (from 0):         *)
(* methods[index] of the source is methods[index + 1] here.                *)
(***************************************************************************)
\* MethodInfo as build_vtable reads it: name, descriptor, access flags
VMethod(name, descriptor, flags) ==
    [name |-> name, descriptor |-> descriptor, access_flags |-> flags]

\* Class as build_vtable reads it; package is what package_name() returns
VClass(package, flags, super_class, interfaces, methods) ==
    [package |-> package, access_flags |-> flags, super_class |-> super_class,
     interfaces |-> interfaces, methods |-> methods]

\* the method lists a class file of the family below may declare
MethodLists ==
    { <<>>,
      <<VMethod("f", "()I", {"PUBLIC"})>>,
      <<VMethod("f", "()I", {})>>,
      <<VMethod("f", "()I", {"PRIVATE"})>>,
      <<VMethod("f", "()I", {"PUBLIC", "FINAL"})>>,
      <<VMethod("f", "()I", {"PUBLIC", "STATIC"})>>,
      <<VMethod("g", "()I", {"PUBLIC"}), VMethod("f", "()I", {"PROTECTED"})>>,
      <<VMethod("f", "(I)I", {"PUBLIC"}), VMethod("f", "()I", {"PUBLIC"})>> }

Packages == {"p", "q"}

\* Object <- A <- B <- C, with A and B optionally implementing the interface I
VtableWorlds ==
    { [ Object |-> VClass("java/lang", {"PUBLIC"}, "", <<>>,
                          <<VMethod("<init>", "()V", {"PUBLIC"}),
                            VMethod("hashCode", "()I", {"PUBLIC"})>>),
        I |-> VClass("p", {"PUBLIC", "INTERFACE"}, "Object", <<>>,
                     <<VMethod("g", "()I", {"PUBLIC"}),
                       VMethod("s", "()I", {"PUBLIC", "STATIC"})>>),
        A |-> VClass("p", {"PUBLIC"}, "Object", a_intf, a_methods),
        B |-> VClass(b_package, {"PUBLIC"}, "A", b_intf, b_methods),
        C |-> VClass(c_package, c_flags, "B", <<>>, c_methods) ] :
      a_intf \in {<<>>, <<"I">>}, a_methods \in MethodLists,
      b_package \in Packages, b_intf \in {<<>>, <<"I">>}, b_methods \in MethodLists,
      c_package \in Packages, c_flags \in {{"PUBLIC"}, {"PUBLIC", "FINAL"}},
      c_methods \in {<<>>, <<VMethod("f", "()I", {"PUBLIC"})>>,
                     <<VMethod("f", "()I", {})>>} }

VClassNames == {"Object", "I", "A", "B", "C"}

\* define_class has built the vtable of the class
built(name) == name \in DOMAIN vtable
NoInvoke == [is_virtual |-> FALSE, static_class |-> "", index |-> -1,
             vtable_index |-> -1, this_class |-> "", class |-> "", method |-> -1]

VtableIdle == classes = <<>> /\ vtable = <<>> /\ invoked = NoInvoke

InitVtable ==
    /\ classes \in VtableWorlds
    /\ vtable = <<>>
    /\ invoked = NoInvoke

\* VtableIndex
InThisClass(index) == [kind |-> "InThisClass", class |-> "", index |-> index]
OtherClass(class, index) == [kind |-> "OtherClass", class |-> class, index |-> index]
OtherInterface(class, index) ==
    [kind |-> "OtherInterface", class |-> class, index |-> index]

\* VtableEntry; root_class "" is None
VtableEntry(root_class, name, descriptor, index) ==
    [root_class |-> root_class, name |-> name, descriptor |-> descriptor,
     index |-> index]

MethodKey(method) == <<method.name, method.descriptor>>

\* the members of a set of indexes in ascending order (the order of iteration)
RECURSIVE Ascending(_)
Ascending(indexes) ==
    IF indexes = {} THEN <<>>
    ELSE LET least == CHOOSE i \in indexes : \A j \in indexes : i <= j
         IN <<least>> \o Ascending(indexes \ {least})

\* method_map of build_vtable: (name, descriptor) -> index of the instance
\* methods that are neither private nor <init>; collect() keeps the last
\* index of a repeated key
method_map(class) ==
    LET eligible == { i \in 0 .. Len(class.methods) - 1 :
                        /\ "STATIC" \notin class.methods[i + 1].access_flags
                        /\ "PRIVATE" \notin class.methods[i + 1].access_flags
                        /\ class.methods[i + 1].name # "<init>" }
        keys == { MethodKey(class.methods[i + 1]) : i \in eligible }
    IN [ key \in keys |->
           CHOOSE i \in eligible :
               /\ MethodKey(class.methods[i + 1]) = key
               /\ \A j \in eligible :
                      MethodKey(class.methods[j + 1]) = key => j <= i ]

\* the (class, index) an inherited entry points at, seen from class
entry_target(class, entry) ==
    IF entry.index.kind = "InThisClass"
    THEN [class |-> class.super_class, index |-> entry.index.index]
    ELSE [class |-> entry.index.class, index |-> entry.index.index]

\* "skip non overridable": the inherited method is neither public nor
\* protected and lives in another package
not_overridable(class, entry) ==
    LET target == entry_target(class, entry)
        super_method == classes[target.class].methods[target.index + 1]
    IN /\ "PUBLIC" \notin super_method.access_flags
       /\ "PROTECTED" \notin super_method.access_flags
       /\ classes[target.class].package # class.package

\* one round of the loop "for entry in &mut vtable"
override_entry(class, entry) ==
    LET target == entry_target(class, entry)
        rebased == [entry EXCEPT
                      !.index = IF @.kind = "InThisClass"
                                THEN OtherClass(target.class, target.index) ELSE @,
                      !.root_class = IF @ = "" THEN target.class ELSE @]
        super_method == classes[target.class].methods[target.index + 1]
        key == MethodKey(super_method)
    IN IF not_overridable(class, entry) THEN rebased
       ELSE IF key \in DOMAIN method_map(class)
            THEN [rebased EXCEPT !.index = InThisClass(method_map(class)[key])]
            ELSE rebased

\* overrode_methods after the loop
overrode_methods(class, inherited) ==
    { MethodKey(classes[entry_target(class, inherited[k]).class]
                    .methods[entry_target(class, inherited[k]).index + 1]) :
        k \in { k \in DOMAIN inherited : ~not_overridable(class, inherited[k]) } }

\* "put new methods in the end"
new_entries(class, inherited) ==
    LET Keep(i) ==
            LET method == class.methods[i + 1]
            IN /\ "FINAL" \notin method.access_flags
               /\ MethodKey(method) \in DOMAIN method_map(class)
               /\ ~(/\ MethodKey(method) \in overrode_methods(class, inherited)
                    /\ \/ "PUBLIC" \in method.access_flags
                       \/ "PROTECTED" \in method.access_flags)
        kept == Ascending({ i \in 0 .. Len(class.methods) - 1 : Keep(i) })
    IN IF "FINAL" \in class.access_flags THEN <<>>
       ELSE [ k \in DOMAIN kept |->
                VtableEntry("", class.methods[kept[k] + 1].name,
                            class.methods[kept[k] + 1].descriptor,
                            InThisClass(kept[k])) ]

\* "put interface methods"
RECURSIVE interface_entries(_, _)
interface_entries(class, interfaces) ==
    IF interfaces = <<>> THEN <<>>
    ELSE LET interface == Head(interfaces)
             methods == classes[interface].methods
             Keep(i) == /\ "PRIVATE" \notin methods[i + 1].access_flags
                        /\ "STATIC" \notin methods[i + 1].access_flags
                        /\ MethodKey(methods[i + 1]) \notin DOMAIN method_map(class)
             kept == Ascending({ i \in 0 .. Len(methods) - 1 : Keep(i) })
         IN [ k \in DOMAIN kept |->
                VtableEntry(interface, methods[kept[k] + 1].name,
                            methods[kept[k] + 1].descriptor,
                            OtherInterface(interface, kept[k])) ]
            \o interface_entries(class, Tail(interfaces))

\* the inherited entries left untouched: build_vtable without its first step
no_inherited(class) == <<>>

\* "super class's vtable goes first"
inherited_entries(class) ==
    IF class.super_class # "" THEN vtable[class.super_class] ELSE <<>>

\* BootstrapClassLoader::build_vtable: the vtable of class
build_vtable(class) ==
    LET inherited == inherited_entries(class)
    IN IF "INTERFACE" \in class.access_flags THEN inherited
       ELSE [ k \in DOMAIN inherited |-> override_entry(class, inherited[k]) ]
            \o new_entries(class, inherited)
            \o interface_entries(class, class.interfaces)

\* define_class builds the vtable once the super-class and the interfaces
\* have been resolved
DefineClass(name) ==
    /\ ~built(name)
    /\ classes[name].super_class # "" => built(classes[name].super_class)
    /\ \A k \in DOMAIN classes[name].interfaces : built(classes[name].interfaces[k])
    /\ vtable' = vtable @@ (name :> build_vtable(classes[name]))
    /\ UNCHANGED <<classes, invoked>>
    /\ UNCHANGED NotVtable

\* Class.super_class chain
RECURSIVE v_is_same_or_sub_class_of(_, _)
v_is_same_or_sub_class_of(source, target) ==
    IF source = target THEN TRUE
    ELSE IF classes[source].super_class # ""
         THEN v_is_same_or_sub_class_of(classes[source].super_class, target)
         ELSE FALSE

\* the vtable slots a method reference to methods[index] of class may carry:
\* -1 for a statically dispatched method (private, final, constructor, or
\* one with no slot), otherwise a slot of class's vtable that targets it
resolve_from_vtable(class_name, index) ==
    LET method == classes[class_name].methods[index + 1]
        slots == { i \in 0 .. Len(vtable[class_name]) - 1 :
                     vtable[class_name][i + 1].index = InThisClass(index) }
    IN IF \/ "PRIVATE" \in method.access_flags
          \/ "FINAL" \in method.access_flags
          \/ method.name = "<init>"
          \/ slots = {}
       THEN {-1} ELSE slots

\* Thread::execute, Next::InvokeSpecial: the frame pushed is for the method
\* (class, method); "panic" when the vtable has no such slot.  A run records
\* one call: a call changes neither the classes nor their vtables.
InvokeSpecial(static_class, index, is_virtual, this_class) ==
    /\ invoked = NoInvoke
    /\ built(static_class)
    /\ built(this_class)
    /\ "INTERFACE" \notin classes[static_class].access_flags
    /\ "INTERFACE" \notin classes[this_class].access_flags
    /\ v_is_same_or_sub_class_of(this_class, static_class)
    /\ index \in 0 .. Len(classes[static_class].methods) - 1
    /\ "STATIC" \notin classes[static_class].methods[index + 1].access_flags
    /\ \E vtable_index \in resolve_from_vtable(static_class, index) :
         LET call == [is_virtual |-> is_virtual, static_class |-> static_class,
                      index |-> index, vtable_index |-> vtable_index,
                      this_class |-> this_class]
         IN IF ~is_virtual \/ vtable_index < 0
            THEN invoked' = call @@ [class |-> static_class, method |-> index]
            ELSE IF vtable_index >= Len(vtable[this_class])
                 THEN invoked' = call @@ [class |-> "panic", method |-> -1]
                 ELSE LET vtable_entry == vtable[this_class][vtable_index + 1]
                      IN invoked' = call @@
                           [class |-> IF vtable_entry.index.kind = "InThisClass"
                                      THEN this_class ELSE vtable_entry.index.class,
                            method |-> vtable_entry.index.index]
    /\ UNCHANGED <<classes, vtable>>
    /\ UNCHANGED NotVtable

(***************************************************************************)
(* Part 7.  Heap::intern_string and the special heap.                      *)
(* An identifier of the special heap is id | MAX_OBJECT_ID: the pair of    *)
(* bit 31 and the low 31 bits.                                             *)
(***************************************************************************)
MaxStringLen == 1
MaxInterns == 3
StringBytes == {97, 98}

\* the byte strings of length <= MaxStringLen
RECURSIVE BytesUpTo(_)
BytesUpTo(n) ==
    IF n = 0 THEN {<<>>}
    ELSE BytesUpTo(n - 1) \cup
         { Append(s, b) : s \in { s \in BytesUpTo(n - 1) : Len(s) = n - 1 },
                          b \in StringBytes }

\* the classes get_class_object is asked for
MirrorClasses == {"A"}

or_MAX_OBJECT_ID(id) == <<1, id>>

\* a boxed special object: Bytes, String or Class
SpecialObject(class, payload) == [ptr |-> 1, class |-> class, payload |-> payload]

StringTableEntry(string_id, bytes_id, hash, has_multi_bytes) ==
    [string_id |-> string_id, bytes_id |-> bytes_id, hash |-> hash,
     has_multi_bytes |-> has_multi_bytes]

StringIdle ==
    /\ special_heap = <<>> /\ special_next_id = 0 /\ string_map = <<>>
    /\ class_map = <<>> /\ intern_log = <<>>

\* Heap::new, StringTable::new, ClassTable::new
InitString ==
    /\ special_heap = <<>>
    /\ special_next_id = 0
    /\ string_map = <<>>
    /\ class_map = <<>>
    /\ intern_log = <<>>

\* the number of objects in the special heap
special_objects(h) == Cardinality({ k \in DOMAIN h : is_some(h[k]) })

\* a table that never finds a string
map_never_contains(string) == FALSE

\* string_table.map.get(&string) is Some
map_contains(string) == string \in DOMAIN string_map

\* Heap::intern_string
intern_string(string, has_multi_bytes) ==
    /\ Len(intern_log) < MaxInterns
    /\ IF map_contains(string)
       THEN /\ intern_log' = Append(intern_log,
                                    [string |-> string,
                                     string_id |-> string_map[string].string_id,
                                     allocated |-> 0])
            /\ UNCHANGED <<special_heap, special_next_id, string_map>>
       ELSE LET bytes_obj == SpecialObject("[B", <<string>>)
                r1 == allocate_id_for_obj(special_heap, special_next_id, bytes_obj)
                bytes_id == or_MAX_OBJECT_ID(r1[3])
                string_obj == SpecialObject("java/lang/String",
                                            <<bytes_id, string, 0, has_multi_bytes>>)
                r2 == allocate_id_for_obj(r1[1], r1[2], string_obj)
                string_id == or_MAX_OBJECT_ID(r2[3])
            IN /\ special_heap' = r2[1]
               /\ special_next_id' = r2[2]
               /\ string_map' = string_map @@
                      (string :> StringTableEntry(string_id, bytes_id, 0, FALSE))
               /\ intern_log' = Append(intern_log,
                      [string |-> string, string_id |-> string_id,
                       allocated |-> special_objects(r2[1])
                                       - special_objects(special_heap)])
    /\ UNCHANGED class_map
    /\ UNCHANGED NotString

\* Heap::get_class_object: class mirrors share the special heap
get_class_object(class) ==
    /\ IF class \in DOMAIN class_map
       THEN UNCHANGED <<special_heap, special_next_id, class_map>>
       ELSE LET r == allocate_id_for_obj(special_heap, special_next_id,
                                         SpecialObject("java/lang/Class", <<class>>))
            IN /\ special_heap' = r[1]
               /\ special_next_id' = r[2]
               /\ class_map' = class_map @@ (class :> or_MAX_OBJECT_ID(r[3]))
    /\ UNCHANGED <<string_map, intern_log>>
    /\ UNCHANGED NotString

(***************************************************************************)
(* Part 8.  The shift instructions.                                        *)
(***************************************************************************)
\* the operands: values with bits at both ends and at the int boundary, and
\* counts below, in and above the ranges 0..31 and 0..63
ShiftValues == {LongOfSet(S) : S \in SUBSET {0, 31, 63}}
ShiftCounts == -1 .. 65

NoShift == <<>>

ShiftIdle == shift_v1 = NoLong /\ shift_v2 = 0 /\ shift_out = NoShift

InitShift ==
    /\ shift_v1 \in ShiftValues
    /\ shift_v2 \in ShiftCounts
    /\ shift_out = NoShift

\* `v2 & 0x1F` of an i32: the low five bits
and_0x1F(v2) == v2 % 32

\* `x << n`, 0 <= n < width
shl(x, n) == [i \in DOMAIN x |-> IF i >= n THEN x[i - n] ELSE 0]

\* `x >> n` of a signed integer: the sign bit fills
shr(x, n) ==
    LET top == CHOOSE i \in DOMAIN x : \A j \in DOMAIN x : j <= i
    IN [i \in DOMAIN x |-> IF i + n <= top THEN x[i + n] ELSE x[top]]

\* `x >> n` of an unsigned integer: zero fills
ushr(x, n) ==
    LET top == CHOOSE i \in DOMAIN x : \A j \in DOMAIN x : j <= i
    IN [i \in DOMAIN x |-> IF i + n <= top THEN x[i + n] ELSE 0]

\* the instruction pops v2, then v1, and pushes result
shifted(op, v1, result) ==
    /\ shift_out = NoShift
    /\ shift_out' = [op |-> op, v1 |-> v1, v2 |-> shift_v2, result |-> result]
    /\ UNCHANGED <<shift_v1, shift_v2>>
    /\ UNCHANGED NotShift

ISHL == LET v1 == AsI32(shift_v1) IN shifted("ISHL", v1, shl(v1, and_0x1F(shift_v2)))
ISHR == LET v1 == AsI32(shift_v1) IN shifted("ISHR", v1, shr(v1, and_0x1F(shift_v2)))
IUSHR == LET v1 == AsI32(shift_v1) IN shifted("IUSHR", v1, ushr(v1, and_0x1F(shift_v2)))
LSHL == shifted("LSHL", shift_v1, shl(shift_v1, and_0x1F(shift_v2)))
LSHR == shifted("LSHR", shift_v1, shr(shift_v1, and_0x1F(shift_v2)))
LUSHR == shifted("LUSHR", shift_v1, ushr(shift_v1, and_0x1F(shift_v2)))

(***************************************************************************)
(* Part 9.  Assignability, CHECKCAST and INSTANCEOF.                       *)
(***************************************************************************)
\* Class as the assignability rules read it; element is array_element_type
\* (reference arrays only), "" otherwise
TClass(super_class, interfaces, interface, element) ==
    [super_class |-> super_class, interfaces |-> interfaces,
     interface |-> interface, array_element_type |-> element]

\* define_array: Object above, Cloneable and Serializable beside
TArray(element) ==
    TClass("java/lang/Object", <<"java/lang/Cloneable", "java/io/Serializable">>,
           FALSE, element)

TypeClasses ==
    ( "java/lang/Object" :> TClass("", <<>>, FALSE, "") ) @@
    ( "java/lang/Cloneable" :> TClass("java/lang/Object", <<>>, TRUE, "") ) @@
    ( "java/io/Serializable" :> TClass("java/lang/Object", <<>>, TRUE, "") ) @@
    ( "I" :> TClass("java/lang/Object", <<>>, TRUE, "") ) @@
    ( "A" :> TClass("java/lang/Object", <<"I">>, FALSE, "") ) @@
    ( "B" :> TClass("A", <<>>, FALSE, "") ) @@
    ( "C" :> TClass("java/lang/Object", <<>>, FALSE, "") ) @@
    ( "Cell" :> TClass("java/lang/Object", <<"java/lang/Cloneable">>, FALSE, "") ) @@
    ( "SubCell" :> TClass("Cell", <<>>, FALSE, "") ) @@
    ( "[I" :> TArray("") ) @@
    ( "[J" :> TArray("") ) @@
    ( "[LA;" :> TArray("A") ) @@
    ( "[LB;" :> TArray("B") ) @@
    ( "[[I" :> TArray("[I") )

\* get_array_type: the element type parsed from the class name; "" for None
ArrayElementDescriptor ==
    ( "[I" :> "I" ) @@ ( "[J" :> "J" ) @@ ( "[LA;" :> "LA;" ) @@
    ( "[LB;" :> "LB;" ) @@ ( "[[I" :> "[I" )

get_array_type(class) ==
    IF class \in DOMAIN ArrayElementDescriptor THEN ArrayElementDescriptor[class]
    ELSE ""

\* FieldType::is_primitive
is_primitive(field_type) == field_type \in {"I", "J"}

\* the classes an object on the heap can have
InstanceClasses ==
    { c \in DOMAIN TypeClasses : ~TypeClasses[c].interface }

RECURSIVE t_is_same_or_sub_class_of(_, _)
t_is_same_or_sub_class_of(source, target) ==
    IF source = target THEN TRUE
    ELSE IF TypeClasses[source].super_class # ""
         THEN t_is_same_or_sub_class_of(TypeClasses[source].super_class, target)
         ELSE FALSE

RECURSIVE is_class_implements(_, _)
is_class_implements(class, interface) ==
    IF \E k \in DOMAIN TypeClasses[class].interfaces :
           TypeClasses[class].interfaces[k] = interface
    THEN TRUE
    ELSE IF TypeClasses[class].super_class # ""
         THEN is_class_implements(TypeClasses[class].super_class, interface)
         ELSE FALSE

RECURSIVE is_array_assignable_to(_, _)
is_array_assignable_to(source, target) ==
    IF get_array_type(source) # ""
    THEN IF get_array_type(target) # ""
         THEN IF is_primitive(get_array_type(source))
                 \/ is_primitive(get_array_type(target))
              THEN get_array_type(source) = get_array_type(target)
              ELSE is_array_assignable_to(TypeClasses[source].array_element_type,
                                          TypeClasses[target].array_element_type)
         ELSE IF TypeClasses[target].interface
              THEN target \in {"java/lang/Cloneable", "java/io/Serializable"}
              ELSE target = "java/lang/Object"
    ELSE IF TypeClasses[target].interface
         THEN is_class_implements(source, target)
         ELSE t_is_same_or_sub_class_of(source, target)

NoCast == <<>>

CastIdle ==
    /\ cast_class = "" /\ cast_target = "" /\ cast_out = NoCast
    /\ cast_frame = "" /\ cast_cell = ""

\* the classes whose methods execute the instruction
FrameClasses == {"A", "B", "C"}

InitCast ==
    /\ cast_class \in InstanceClasses \cup {""}
    /\ cast_target \in DOMAIN TypeClasses
    /\ cast_out = NoCast
    /\ cast_frame \in FrameClasses
    \* an entry naming another class may have been resolved already
    /\ cast_cell \in IF cast_target = cast_frame THEN {""} ELSE {"", cast_target}

\* InterpreterEnv::resolve_class: the class of the frame when the entry
\* names it, the cell untouched; otherwise get_or_load_class fills the cell.
\* The value is the cell afterwards.
resolve_class(frame_class, name, cell) ==
    IF name = frame_class THEN cell
    ELSE IF cell = "" THEN name ELSE cell

\* cp_class.class.get().unwrap(), then is_same_or_sub_class_of:
\* "panic" when the cell is empty
compare_with_cell(class, cell) ==
    IF cell = "" THEN "panic"
    ELSE IF t_is_same_or_sub_class_of(class, cell) THEN "same_or_sub" ELSE "other"

\* inst::CHECKCAST: the reference stays on the stack, or ClassCastException
CHECKCAST ==
    /\ cast_out = NoCast
    /\ cast_cell' = resolve_class(cast_frame, cast_target, cast_cell)
    /\ cast_out' =
         IF cast_class = ""
         THEN [op |-> "CHECKCAST", result |-> "Ok", exception |-> "", pushed |-> <<>>]
         ELSE IF compare_with_cell(cast_class, cast_cell') = "panic"
         THEN [op |-> "CHECKCAST", result |-> "panic", exception |-> "", pushed |-> <<>>]
         ELSE IF compare_with_cell(cast_class, cast_cell') = "other"
         THEN [op |-> "CHECKCAST", result |-> "Exception",
               exception |-> "java/lang/ClassCastException", pushed |-> <<>>]
         ELSE [op |-> "CHECKCAST", result |-> "Ok", exception |-> "", pushed |-> <<>>]
    /\ UNCHANGED <<cast_class, cast_target, cast_frame>>
    /\ UNCHANGED NotCast

\* inst::INSTANCEOF: pops the reference and pushes 0 or 1
INSTANCEOF ==
    /\ cast_out = NoCast
    /\ cast_cell' = resolve_class(cast_frame, cast_target, cast_cell)
    /\ cast_out' =
         IF cast_class # "" /\ compare_with_cell(cast_class, cast_cell') = "panic"
         THEN [op |-> "INSTANCEOF", result |-> "panic", exception |-> "", pushed |-> <<>>]
         ELSE [op |-> "INSTANCEOF", result |-> "Ok", exception |-> "",
               pushed |-> IF cast_class = "" THEN <<0>>
                          ELSE IF compare_with_cell(cast_class, cast_cell') = "same_or_sub"
                               THEN <<1>> ELSE <<0>>]
    /\ UNCHANGED <<cast_class, cast_target, cast_frame>>
    /\ UNCHANGED NotCast

(***************************************************************************)
(* Part 10.  Array element access and System.arraycopy.                    *)
(* An array is its class and the sequence of its elements: element index   *)
(* of the source is element index + 1 here.                                *)
(***************************************************************************)
MaxArrayLen == 3

\* the indexes and positions tried: below, in and above the bounds
ArrayIndexes == -2 .. MaxArrayLen + 1

HeapArray(class, elems) == [class |-> class, elems |-> elems]

NoArrayOp == <<>>

ArrayIdle == arr_heap = <<>> /\ arr_out = NoArrayOp

\* one int array (identifier 1) of any length and contents
InitArray ==
    /\ \E len \in 0 .. MaxArrayLen :
         \E elems \in [1 .. len -> {0, 5}] : arr_heap = (1 :> HeapArray("[I", elems))
    /\ arr_out = NoArrayOp

\* objects of class A (1), B (2) and C (3), an A[] holding null, A and B
\* objects (4), a B[] full of B objects (5) and an int[] (6)
InitCopy ==
    /\ \E src \in [1 .. MaxArrayLen -> {0, 1, 2}], fill \in {2} :
         arr_heap = (1 :> HeapArray("A", <<>>)) @@ (2 :> HeapArray("B", <<>>)) @@
                    (3 :> HeapArray("C", <<>>)) @@
                    (4 :> HeapArray("[LA;", src)) @@
                    (5 :> HeapArray("[LB;", [k \in 1 .. MaxArrayLen |-> fill])) @@
                    (6 :> HeapArray("[I", [k \in 1 .. MaxArrayLen |-> 5]))
    /\ arr_out = NoArrayOp

\* FieldType::get_field_type_size
get_field_type_size(field_type) ==
    IF field_type = "J" THEN 8 ELSE 4

\* array[index * element_size .. (index + 1) * element_size] with index the
\* i32 cast to usize: the slice exists only for 0 <= index < length, a
\* negative index becomes an index above every length
in_slice(elems, index) == 0 <= index /\ index < Len(elems)

ArrayOutcome(op, arr, index, result, exception, value) ==
    [op |-> op, arr |-> arr, index |-> index, before |-> arr_heap,
     result |-> result, exception |-> exception, value |-> value]

\* InterpreterEnv::arr_load::<T>, T of size size_of_T
arr_load(op, arr, index, size_of_T) ==
    /\ arr_out = NoArrayOp
    /\ arr = 0 \/ (arr \in DOMAIN arr_heap /\ get_array_type(arr_heap[arr].class) # "")
    /\ arr_out' =
         IF arr = 0
         THEN ArrayOutcome(op, arr, index, "Err", "java/lang/NullPointerException", 0)
         ELSE LET arr_object == arr_heap[arr]
                  type_size == get_field_type_size(get_array_type(arr_object.class))
                  arr_len == Len(arr_object.elems)
              IN IF type_size # size_of_T
                 THEN ArrayOutcome(op, arr, index, "panic", "", 0)
                 ELSE IF index >= arr_len
                 THEN ArrayOutcome(op, arr, index, "Err",
                                   "java/lang/ArrayIndexOutOfBoundsException", 0)
                 ELSE IF ~in_slice(arr_object.elems, index)
                 THEN ArrayOutcome(op, arr, index, "panic", "", 0)
                 ELSE ArrayOutcome(op, arr, index, "Ok", "", arr_object.elems[index + 1])
    /\ UNCHANGED arr_heap
    /\ UNCHANGED NotArray

\* InterpreterEnv::arr_store::<T>
arr_store(op, arr, index, value, size_of_T) ==
    /\ arr_out = NoArrayOp
    /\ arr = 0 \/ (arr \in DOMAIN arr_heap /\ get_array_type(arr_heap[arr].class) # "")
    /\ IF arr = 0
       THEN /\ arr_out' = ArrayOutcome(op, arr, index, "Err",
                                       "java/lang/NullPointerException", value)
            /\ UNCHANGED arr_heap
       ELSE LET arr_object == arr_heap[arr]
                type_size == get_field_type_size(get_array_type(arr_object.class))
                arr_len == Len(arr_object.elems)
            IN IF type_size # size_of_T
               THEN /\ arr_out' = ArrayOutcome(op, arr, index, "Err",
                                               "java/lang/ArrayStoreException", value)
                    /\ UNCHANGED arr_heap
               ELSE IF index >= arr_len
               THEN /\ arr_out' = ArrayOutcome(op, arr, index, "Err",
                                     "java/lang/ArrayIndexOutOfBoundsException", value)
                    /\ UNCHANGED arr_heap
               ELSE IF ~in_slice(arr_object.elems, index)
               THEN /\ arr_out' = ArrayOutcome(op, arr, index, "panic", "", value)
                    /\ UNCHANGED arr_heap
               ELSE /\ arr_out' = ArrayOutcome(op, arr, index, "Ok", "", value)
                    /\ arr_heap' = [arr_heap EXCEPT ![arr].elems[index + 1] = value]
    /\ UNCHANGED NotArray

IALOAD == \E arr \in {0, 1}, index \in ArrayIndexes : arr_load("IALOAD", arr, index, 4)

IASTORE == \E arr \in {0, 1}, index \in ArrayIndexes : arr_store("IASTORE", arr, index, 7, 4)

\* AASTORE of null or an object (1 .. 3) into the arrays of InitCopy
AASTORE ==
    \E arr \in {0, 4, 5}, index \in ArrayIndexes, value \in 0 .. 3 :
        arr_store("AASTORE", arr, index, value, 4)

\* is_assignable_to(class of the element, element class of the destination)
is_assignable_to(source, target) == is_array_assignable_to(source, target)

\* the first index in src_pos .. src_pos + length - 1 whose element is
\* non-null and not assignable to the destination's element class; -1 if none
first_unassignable(src, dest, src_pos, length) ==
    LET failing == { i \in src_pos .. src_pos + length - 1 :
                       /\ src.elems[i + 1] # 0
                       /\ ~is_assignable_to(arr_heap[src.elems[i + 1]].class,
                                            TypeClasses[dest.class].array_element_type) }
    IN IF failing = {} THEN -1
       ELSE CHOOSE i \in failing : \A j \in failing : i <= j

\* the exception arraycopy prepares when an element cannot be stored
arr_store_exception == "java/lang/IndexOutOfBoundsException"

CopyOutcome(src_ref, src_pos, dest_ref, dest_pos, length, result, exception) ==
    [op |-> "arraycopy", src_ref |-> src_ref, src_pos |-> src_pos,
     dest_ref |-> dest_ref, dest_pos |-> dest_pos, length |-> length,
     before |-> arr_heap, result |-> result, exception |-> exception]

\* `pos + length > len as i32`: <<"panic">> when the sum overflows in a
\* build with overflow checks; without them the sum wraps
exceeds(pos, length, len, overflow_checks) ==
    LET sum == i32_add(pos, length)
    IN IF sum[1] = "ok" THEN <<"ok", sum[2] > len>>
       ELSE IF overflow_checks THEN <<"panic">>
       ELSE <<"ok", i32_wrapping_add(pos, length) > len>>

\* the lengths arraycopy is called with
CopyLengths == 0 .. MaxArrayLen \cup {2147483646, 2147483647}

\* native_system_arraycopy; overflow_checks is the build's setting, filler
\* what the memory after the source array holds
native_system_arraycopy(src_ref, src_pos, dest_ref, dest_pos, length0, overflow_checks, filler) ==
    LET Outcome(result, exception) ==
            CopyOutcome(src_ref, src_pos, dest_ref, dest_pos, length0, result, exception)
        Err(exception) == arr_out' = Outcome("Err", exception) /\ UNCHANGED arr_heap
        Panics == arr_out' = Outcome("panic", "") /\ UNCHANGED arr_heap
    IN
    /\ arr_out = NoArrayOp
    /\ IF dest_ref = 0 \/ src_ref = 0 THEN Err("java/lang/NullPointerException")
       ELSE LET src == arr_heap[src_ref]
                dest == arr_heap[dest_ref]
                src_type == get_array_type(src.class)
                dest_type == get_array_type(dest.class)
                src_exceeds == exceeds(src_pos, length0, Len(src.elems), overflow_checks)
                dest_exceeds == exceeds(dest_pos, length0, Len(dest.elems), overflow_checks)
            IN IF src_type = "" THEN Err("java/lang/ArrayStoreException")
               ELSE IF dest_type = "" THEN Err("java/lang/ArrayStoreException")
               ELSE IF (is_primitive(src_type) \/ is_primitive(dest_type))
                       /\ src_type # dest_type
               THEN Err("java/lang/ArrayStoreException")
               ELSE IF src_pos < 0 \/ dest_pos < 0 \/ length0 < 0
               THEN Err("java/lang/IndexOutOfBoundsException")
               ELSE IF src_exceeds[1] = "panic" THEN Panics
               ELSE IF src_exceeds[2] THEN Err("java/lang/IndexOutOfBoundsException")
               ELSE IF dest_exceeds[1] = "panic" THEN Panics
               ELSE IF dest_exceeds[2] THEN Err("java/lang/IndexOutOfBoundsException")
               ELSE IF length0 > MaxArrayLen
               \* both sums wrapped: the loop over src_pos..src_pos + length is
               \* empty and length * src_ele_size bytes are copied past the end
               \* of both arrays, which is undefined: the process dies, or the
               \* destination holds from dest_pos on what followed src_pos
               THEN \/ arr_out' = Outcome("crash", "") /\ UNCHANGED arr_heap
                    \/ /\ arr_out' = Outcome("Ok", "")
                       /\ arr_heap' =
                            [arr_heap EXCEPT ![dest_ref].elems =
                               [k \in DOMAIN dest.elems |->
                                  IF k <= dest_pos THEN dest.elems[k]
                                  ELSE IF src_pos + (k - dest_pos) <= Len(src.elems)
                                       THEN src.elems[src_pos + (k - dest_pos)]
                                       ELSE filler]]
               ELSE LET failed == IF is_primitive(src_type) THEN -1
                                  ELSE first_unassignable(src, dest, src_pos, length0)
                        length == IF failed >= 0 THEN failed - src_pos ELSE length0
                        copied == [k \in DOMAIN dest.elems |->
                                     IF dest_pos < k /\ k <= dest_pos + length
                                     THEN src.elems[src_pos + (k - dest_pos)]
                                     ELSE dest.elems[k]]
                    IN /\ arr_heap' = [arr_heap EXCEPT ![dest_ref].elems = copied]
                       /\ arr_out' = IF failed >= 0
                                     THEN Outcome("Err", arr_store_exception)
                                     ELSE Outcome("Ok", "")
    /\ UNCHANGED NotArray

arraycopy ==
    \E src_ref, dest_ref \in {0, 1, 4, 5, 6}, src_pos \in -1 .. MaxArrayLen - 1,
       dest_pos \in 0 .. MaxArrayLen - 1, length \in CopyLengths,
       overflow_checks \in BOOLEAN, filler \in {0, 5} :
        native_system_arraycopy(src_ref, src_pos, dest_ref, dest_pos, length,
                                overflow_checks, filler)

(***************************************************************************)
(* Part 11.  MONITORENTER and MONITOREXIT.                                 *)
(***************************************************************************)
MonitorThreads == {1, 2}
MonitorObjects == {1, 2}
MaxEnters == 2

NoMonitorOp == <<>>

MonitorIdle == monitor = <<>> /\ mon_out = NoMonitorOp

\* ObjectMonitor::default
InitMonitor ==
    /\ monitor = [obj_ref \in MonitorObjects |-> Unlocked]
    /\ mon_out = NoMonitorOp

\* ObjectMonitor::exit, which the caller promises (unsafe) to call as the
\* owner: one level is released.  Called by another thread it is undefined:
\* the monitor is left alone or loses a level of its owner.
monitor_exit(m, t) ==
    IF m.owner = t THEN {unlock(m)}
    ELSE {m} \cup (IF m.count > 0 THEN {unlock(m)} ELSE {})

MonitorOutcome(op, t, obj_ref, result, exception) ==
    [op |-> op, thread |-> t, obj_ref |-> obj_ref,
     before |-> IF obj_ref = 0 THEN Unlocked ELSE monitor[obj_ref],
     result |-> result, exception |-> exception]

\* inst::MONITORENTER; ObjectMonitor::enter returns once the monitor is free
\* or already owned by the thread
MONITORENTER(t, obj_ref) ==
    /\ IF obj_ref = 0
       THEN /\ mon_out' = MonitorOutcome("MONITORENTER", t, obj_ref, "Exception",
                                         "java/lang/NullPointerException")
            /\ UNCHANGED monitor
       ELSE /\ monitor[obj_ref].owner \in {NoOwner, t}
            /\ monitor[obj_ref].count < MaxEnters
            /\ monitor' = [monitor EXCEPT ![obj_ref] = lock(@, t)]
            /\ mon_out' = MonitorOutcome("MONITORENTER", t, obj_ref, "Ok", "")
    /\ UNCHANGED NotMonitor

\* inst::MONITOREXIT
MONITOREXIT(t, obj_ref) ==
    /\ IF obj_ref = 0
       THEN /\ mon_out' = MonitorOutcome("MONITOREXIT", t, obj_ref, "Exception",
                                         "java/lang/NullPointerException")
            /\ UNCHANGED monitor
       ELSE /\ \E released \in monitor_exit(monitor[obj_ref], t) :
                   monitor' = [monitor EXCEPT ![obj_ref] = released]
            /\ mon_out' = MonitorOutcome("MONITOREXIT", t, obj_ref, "Ok", "")
    /\ UNCHANGED NotMonitor

(***************************************************************************)
(* Part 12.  The depth of the frame stack.                                 *)
(* The interpreter of Part 5 runs a guest whose method m calls itself, on  *)
(* a thread created by Thread::new(max_frame_size).                        *)
(***************************************************************************)
MaxFrameSize == 3
\* the model follows the recursion up to this many frames
MaxFrames == 5

\* static void main() { m(c); }   static void m(int a) { m(a); } or { }
RecGuests ==
    { [constant_pool |-> ConstantPool,
       methods |->
         [main |-> MethodInfo(<<c, "INVOKESTATIC", 0, 3, "RETURN">>, <<>>, <<>>, <<>>, -1),
          f    |-> MethodInfo(FCode, <<>>, <<"I", "I">>, <<"I">>, -1),
          m    |-> MethodInfo(body, <<>>, <<"I">>, <<>>, -1)]] :
      c \in {"ICONST_0", "ICONST_1", "ICONST_2"},
      body \in { <<"ILOAD_0", "INVOKESTATIC", 0, 3, "RETURN">>, <<"RETURN">> } }

DepthIdle == max_frame_size = 0

\* Thread::new(max_frame_size), new_main_frame
InitDepth ==
    /\ max_frame_size \in 1 .. MaxFrameSize
    /\ guest \in RecGuests
    /\ top_frame = <<Frame("main", <<>>, <<0, 0>>)>>
    /\ pc = 0
    /\ exec_result = "running"
    /\ exec_err = NoException
    /\ raised = <<>>
    /\ handler_entry = <<>>
    /\ delivered = <<>>
    /\ invoke_log = <<>>

(***************************************************************************)
(* Part 13.  The layout of instance fields.                                *)
(* parse_class splits the fields of a class file into static and instance  *)
(* fields; define_class lays the instance fields out after the super's.    *)
(***************************************************************************)
Field(name, descriptor, flags) ==
    [name |-> name, descriptor |-> descriptor, access_flags |-> flags]

\* FieldInfo of the runtime class
FieldInfo(name, descriptor, index) ==
    [name |-> name, descriptor |-> descriptor, index |-> index]

\* the field lists a class file of the family below may declare
FieldLists ==
    { <<>>,
      <<Field("x", "I", {})>>,
      <<Field("x", "J", {})>>,
      <<Field("s", "J", {"STATIC"}), Field("x", "D", {})>>,
      <<Field("x", "I", {}), Field("y", "J", {}), Field("z", "I", {})>>,
      <<Field("y", "D", {}), Field("s", "I", {"STATIC"}), Field("x", "LA;", {})>> }

FieldClassNames == {"Object", "A", "B", "C"}

\* Object <- A <- B <- C
FieldWorlds ==
    { [ Object |-> [super_class |-> "", fields |-> <<>>],
        A |-> [super_class |-> "Object", fields |-> a],
        B |-> [super_class |-> "A", fields |-> b],
        C |-> [super_class |-> "B", fields |-> c] ] :
      a \in FieldLists, b \in FieldLists, c \in FieldLists }

NoLazy == [class |-> "", key |-> <<>>, resolve |-> <<"None">>]

FieldIdle ==
    /\ field_files = <<>> /\ instance_fields_info = <<>>
    /\ field_eager = <<>> /\ field_lazy = <<>>

InitField ==
    /\ field_files \in FieldWorlds
    /\ instance_fields_info = <<>>
    /\ field_eager = <<>>
    /\ field_lazy = NoLazy

\* FieldType::is_long
is_long(descriptor) == descriptor \in {"J", "D"}

\* a long or double field is as wide as any other: the layout without the
\* second slot
one_slot(descriptor) == 1

\* the slots a field takes: "instance_field_num += 2" or "+= 1"
field_slots(descriptor) == IF is_long(descriptor) THEN 2 ELSE 1

\* parse_class: partition() keeps the non-static fields in declaration order
parse_instance_fields(fields) ==
    LET kept == Ascending({ k \in DOMAIN fields : "STATIC" \notin fields[k].access_flags })
    IN [ k \in DOMAIN kept |-> fields[kept[k]] ]

\* the first value of instance_field_num: one past the last slot of the
\* super-class's last field, 0 without a super-class or without fields
first_field_num(super_fields) ==
    IF super_fields = <<>> THEN 0
    ELSE LET f == super_fields[Len(super_fields)]
         IN f.index + field_slots(f.descriptor)

\* the loop "for field_info in class.instance_fields_info.iter_mut()"
RECURSIVE allocate_field_indexes(_, _)
allocate_field_indexes(fields, instance_field_num) ==
    IF fields = <<>> THEN <<>>
    ELSE <<FieldInfo(Head(fields).name, Head(fields).descriptor, instance_field_num)>>
         \o allocate_field_indexes(Tail(fields),
                instance_field_num + field_slots(Head(fields).descriptor))

\* BootstrapClassLoader::resolve_this_class_field_ref: the new
\* instance_fields_info of the class
resolve_this_class_field_ref(class) ==
    LET super_fields == IF class.super_class # ""
                        THEN instance_fields_info[class.super_class] ELSE <<>>
    IN super_fields
       \o allocate_field_indexes(parse_instance_fields(class.fields),
                                 first_field_num(super_fields))

\* the name and descriptor pairs the field references of the guest carry
FieldKeys ==
    { <<f.name, f.descriptor>> :
        f \in UNION { { l[k] : k \in DOMAIN l } : l \in FieldLists } }

\* the indexes of the fields of a list that have the name and descriptor
matching(fields, key) ==
    { k \in DOMAIN fields : fields[k].name = key[1] /\ fields[k].descriptor = key[2] }

\* field_map of resolve_this_class_field_ref: the super-class's fields
\* chained with the class's own, collected into a HashMap: of two fields
\* with one key the later stays.  The references of the class to itself
\* that the map holds become InThisClass(index).
resolve_own_field_refs(fields) ==
    [ key \in { q \in FieldKeys : matching(fields, q) # {} } |->
        fields[CHOOSE k \in matching(fields, key) :
                 \A j \in matching(fields, key) : j <= k].index ]

\* class_loader::resolve_field, is_static false:
\* class.instance_fields_info.iter().find(..): <<"Some", index>> or <<"None">>
resolve_field(fields, key) ==
    IF matching(fields, key) = {} THEN <<"None">>
    ELSE <<"Some", fields[CHOOSE k \in matching(fields, key) :
                            \A j \in matching(fields, key) : k <= j].index>>

\* define_class of a class whose super-class is resolved
DefineFields(name) ==
    /\ name \notin DOMAIN instance_fields_info
    /\ field_files[name].super_class # ""
         => field_files[name].super_class \in DOMAIN instance_fields_info
    /\ instance_fields_info' =
         instance_fields_info @@ (name :> resolve_this_class_field_ref(field_files[name]))
    /\ field_eager' =
         field_eager @@
           (name :> resolve_own_field_refs(resolve_this_class_field_ref(field_files[name])))
    /\ UNCHANGED <<field_files, field_lazy>>
    /\ UNCHANGED NotField

\* InterpreterEnv::resolve_instance_field of a reference of another class
\* that names the resolved class name: GETFIELD or PUTFIELD reached for the
\* first time
ResolveField(name, key) ==
    /\ name \in DOMAIN instance_fields_info
    /\ field_lazy' = [class |-> name, key |-> key,
                      resolve |-> resolve_field(instance_fields_info[name], key)]
    /\ field_lazy' # field_lazy
    /\ UNCHANGED <<field_files, instance_fields_info, field_eager>>
    /\ UNCHANGED NotField

(***************************************************************************)
(* Part 14.  The payload of an ordinary heap object.                       *)
(* fields_or_array is a byte array: an object holds Variables of four      *)
(* bytes, an array holds elements of size_of::<T>() bytes.  A byte at      *)
(* offset k of the source is fields_or_array[o][k + 1] here.               *)
(***************************************************************************)
\* the objects of the heap: one of test_ordinary_object's shape, a byte
\* array and an int array
PayloadObjects == {"object", "[B", "[I"}
PayloadLen == 2
SizeOfVariable == 4
size_of(object) == IF object = "[B" THEN 1 ELSE 4

\* the values written: Variables and i32 elements, i8 elements
IntValues == {0, -2, 305419896}
ByteValues == {0, -128, 127}
PayloadValues(object) == IF object = "[B" THEN ByteValues ELSE IntValues

NoGet == [object |-> "", index |-> -1, value |-> 0]

PayloadIdle == fields_or_array = <<>> /\ last_put = <<>> /\ payload_got = NoGet

\* Heap::allocate: init_fields writes Variable { int: 0 } or T::default()
InitPayload ==
    /\ fields_or_array =
         [o \in PayloadObjects |-> [k \in 1 .. PayloadLen * size_of(o) |-> 0]]
    /\ last_put = [o \in PayloadObjects |-> [i \in 0 .. PayloadLen - 1 |-> 0]]
    /\ payload_got = NoGet

\* the bytes of v in memory, least significant first (a transmute on a
\* little-endian target)
to_bytes(v, element_size) ==
    [k \in 1 .. element_size |-> (v \div (256 ^ (k - 1))) % 256]

\* the value of type T the bytes hold
RECURSIVE from_bytes(_)
from_bytes(bytes) ==
    IF Len(bytes) = 1
    THEN IF bytes[1] >= 128 THEN bytes[1] - 256 ELSE bytes[1]
    ELSE bytes[1] + 256 * from_bytes(Tail(bytes))

\* the offset of element index without the element size
index_only(index, element_size) == index

\* index * element_size
element_offset(index, element_size) == index * element_size

\* put_array_index_raw: array[index * element_size..(index + 1) * element_size]
\*     .copy_from_slice(v)
put_array_index_raw(array, index, v, element_size) ==
    [k \in DOMAIN array |->
        IF /\ k > element_offset(index, element_size)
           /\ k <= element_offset(index, element_size) + element_size
        THEN v[k - element_offset(index, element_size)]
        ELSE array[k]]

\* get_array_index_raw
get_array_index_raw(array, index, element_size) ==
    SubSeq(array, element_offset(index, element_size) + 1,
           element_offset(index, element_size) + element_size)

\* Object::put_field: (*self.get_object_fields())[index] = v
put_field(index, v) ==
    /\ fields_or_array' =
         [fields_or_array EXCEPT
            !["object"] = put_array_index_raw(@, index, to_bytes(v, SizeOfVariable),
                                              SizeOfVariable)]
    /\ last_put' = [last_put EXCEPT !["object"][index] = v]
    /\ UNCHANGED payload_got
    /\ UNCHANGED NotPayload

\* Object::get_field
get_field(index) ==
    /\ payload_got' =
         [object |-> "object", index |-> index,
          value |-> from_bytes(get_array_index_raw(fields_or_array["object"], index,
                                                   SizeOfVariable))]
    /\ UNCHANGED <<fields_or_array, last_put>>
    /\ UNCHANGED NotPayload

\* structs::put_array_index::<T>
put_array_index(obj, index, v) ==
    /\ fields_or_array' =
         [fields_or_array EXCEPT
            ![obj] = put_array_index_raw(@, index, to_bytes(v, size_of(obj)),
                                         size_of(obj))]
    /\ last_put' = [last_put EXCEPT ![obj][index] = v]
    /\ UNCHANGED payload_got
    /\ UNCHANGED NotPayload

\* structs::get_array_index::<T>
get_array_index(obj, index) ==
    /\ payload_got' =
         [object |-> obj, index |-> index,
          value |-> from_bytes(get_array_index_raw(fields_or_array[obj], index,
                                                   size_of(obj)))]
    /\ UNCHANGED <<fields_or_array, last_put>>
    /\ UNCHANGED NotPayload

(***************************************************************************)
(* Part 15.  Integer arithmetic.                                           *)
(* Operands are integers of Part 1's kind, functions from bit position to  *)
(* bit, of 32 bits for the int instructions and 64 for the long ones.      *)
(***************************************************************************)
\* an operand as <<low three bits, the bits from 3 to w-2, the sign bit>>
ArithValue(w, t) ==
    [i \in 0 .. w - 1 |->
        IF i = w - 1 THEN t[3] ELSE IF i < 3 THEN (t[1] \div (2 ^ i)) % 2 ELSE t[2]]

\* 0, 1, 2, 7, -1, -3, MIN and MAX of either width
ArithOperands ==
    { <<0, 0, 0>>, <<1, 0, 0>>, <<2, 0, 0>>, <<7, 0, 0>>,
      <<7, 1, 1>>, <<5, 1, 1>>, <<0, 0, 1>>, <<7, 1, 0>> }

NoArith == <<>>

ArithIdle == arith_a = <<>> /\ arith_b = <<>> /\ arith_out = NoArith

InitArith ==
    /\ arith_a \in ArithOperands
    /\ arith_b \in ArithOperands
    /\ arith_out = NoArith

bits_of(x) == Cardinality(DOMAIN x)
zero_of(x) == [i \in DOMAIN x |-> 0]
is_negative(x) == x[bits_of(x) - 1] = 1
MIN(x) == [i \in DOMAIN x |-> IF i = bits_of(x) - 1 THEN 1 ELSE 0]

\* the unsigned value of the n bits of x from bit lo on
RECURSIVE bits_value(_, _, _)
bits_value(x, lo, n) ==
    IF n = 0 THEN 0 ELSE x[lo] + 2 * bits_value(x, lo + 1, n - 1)

\* the half-words of x from half-word h on, least significant first
RECURSIVE half_words(_, _)
half_words(x, h) ==
    IF 16 * h = bits_of(x) THEN <<>>
    ELSE <<bits_value(x, 16 * h, 16)>> \o half_words(x, h + 1)

\* the integer whose half-words are s
of_half_words(s) ==
    [i \in 0 .. 16 * Len(s) - 1 |-> (s[(i \div 16) + 1] \div (2 ^ (i % 16))) % 2]

\* r + s + carry on half-words, the carry out of the top dropped
RECURSIVE half_sums(_, _, _)
half_sums(r, s, carry) ==
    IF r = <<>> THEN <<>>
    ELSE <<(r[1] + s[1] + carry) % 65536>>
         \o half_sums(Tail(r), Tail(s), (r[1] + s[1] + carry) \div 65536)

\* x + y + carry in the width of x, the carry out dropped
add_with_carry(x, y, carry) ==
    of_half_words(half_sums(half_words(x, 0), half_words(y, 0), carry))

\* `!x`
bit_not(x) == [i \in DOMAIN x |-> 1 - x[i]]

\* iN::wrapping_add
wrapping_add(x, y) == add_with_carry(x, y, 0)

\* iN::wrapping_neg: !x + 1
wrapping_neg(x) == add_with_carry(bit_not(x), zero_of(x), 1)

\* `-a` of a signed integer: the negation overflows for MIN, where a build
\* with overflow checks panics and a build without them wraps
neg(a) ==
    IF a = MIN(a) THEN {<<"panic">>, <<"wraps", a>>} ELSE {<<"exact", wrapping_neg(a)>>}

\* r * m + carry on half-words, 0 <= m <= 256, the carry out of the top
\* dropped
RECURSIVE scale(_, _, _)
scale(r, m, carry) ==
    IF r = <<>> THEN <<>>
    ELSE <<(r[1] * m + carry) % 65536>>
         \o scale(Tail(r), m, (r[1] * m + carry) \div 65536)

\* x times the bytes of y from byte k down to byte 0, added to acc * 256^(k+1)
RECURSIVE mul_from(_, _, _, _)
mul_from(x, y, k, acc) ==
    IF k < 0 THEN acc
    ELSE mul_from(x, y, k - 1,
                  half_sums(scale(acc, 256, 0), scale(x, bits_value(y, 8 * k, 8), 0), 0))

\* iN::wrapping_mul
wrapping_mul(x, y) ==
    of_half_words(mul_from(half_words(x, 0), y, (bits_of(y) \div 8) - 1,
                           half_words(zero_of(x), 0)))

\* the bits of x read as an unsigned integer: no magnitude taken
as_unsigned(x) == x

\* the magnitude of x as an unsigned integer of the same width
unsigned_abs(x) == IF is_negative(x) THEN wrapping_neg(x) ELSE x

\* unsigned r >= d on half-words, compared from half-word k down
RECURSIVE unsigned_ge(_, _, _)
unsigned_ge(r, d, k) ==
    IF k = 0 THEN TRUE
    ELSE IF r[k] # d[k] THEN r[k] > d[k] ELSE unsigned_ge(r, d, k - 1)

\* r - d - borrow on half-words, r >= d
RECURSIVE subtract(_, _, _)
subtract(r, d, borrow) ==
    IF r = <<>> THEN <<>>
    ELSE <<(r[1] - d[1] - borrow) % 65536>>
         \o subtract(Tail(r), Tail(d), IF r[1] - d[1] - borrow < 0 THEN 1 ELSE 0)

\* unsigned division of n by d # 0, one byte of n at a time from byte k
\* down to byte 0: <<the bytes of the quotient, the remainder>>; d and the
\* remainder are half-words with one more half-word on top
RECURSIVE udivrem(_, _, _, _, _)
udivrem(n, d, k, q, r) ==
    IF k < 0 THEN <<q, r>>
    ELSE LET r1 == scale(r, 256, bits_value(n, 8 * k, 8))
             digit == CHOOSE t \in 0 .. 255 :
                          /\ unsigned_ge(r1, scale(d, t, 0), Len(d))
                          /\ ~unsigned_ge(r1, scale(d, t + 1, 0), Len(d))
         IN udivrem(n, d, k - 1, <<digit>> \o q, subtract(r1, scale(d, digit, 0), 0))

\* <<|b| / |a|, |b| % |a|>> as unsigned integers of the width of b
unsigned_divrem(b, a) ==
    LET d == half_words(unsigned_abs(a), 0) \o <<0>>
        qr == udivrem(unsigned_abs(b), d, (bits_of(b) \div 8) - 1, <<>>,
                      [k \in DOMAIN d |-> 0])
    IN <<[i \in DOMAIN b |-> (qr[1][(i \div 8) + 1] \div (2 ^ (i % 8))) % 2],
         of_half_words(SubSeq(qr[2], 1, Len(d) - 1))>>

\* iN::wrapping_div, a # 0: the quotient truncated toward zero; MIN / -1
\* wraps to MIN
i_wrapping_div(b, a) ==
    LET q == unsigned_divrem(b, a)[1]
    IN IF is_negative(b) # is_negative(a) THEN wrapping_neg(q) ELSE q

\* iN::wrapping_rem, a # 0: the remainder has the sign of the dividend
wrapping_rem(b, a) ==
    LET r == unsigned_divrem(b, a)[2]
    IN IF is_negative(b) THEN wrapping_neg(r) ELSE r

\* the instruction has popped a, then b (only a for a negation): it pushes
\* value, or raises
ArithOutcome(op, a, b, err, value) ==
    /\ arith_out = NoArith
    /\ arith_out' = [op |-> op, a |-> a, b |-> b, raised |-> err, value |-> value]
    /\ UNCHANGED <<arith_a, arith_b>>
    /\ UNCHANGED NotArith

\* IADD and LADD: a.wrapping_add(b)
ADD(op, w) ==
    LET a == ArithValue(w, arith_a)
        b == ArithValue(w, arith_b)
    IN ArithOutcome(op, a, b, "", wrapping_add(a, b))

\* ISUB and LSUB: b.wrapping_add(-a)
SUB(op, w) ==
    LET a == ArithValue(w, arith_a)
        b == ArithValue(w, arith_b)
    IN \E minus_a \in neg(a) :
        IF minus_a[1] = "panic"
        THEN ArithOutcome(op, a, b, "panic", <<>>)
        ELSE ArithOutcome(op, a, b, "", wrapping_add(b, minus_a[2]))

\* IMUL and LMUL: a.wrapping_mul(b)
MUL(op, w) ==
    LET a == ArithValue(w, arith_a)
        b == ArithValue(w, arith_b)
    IN ArithOutcome(op, a, b, "", wrapping_mul(a, b))

\* INEG and LNEG: a.wrapping_neg()
NEG(op, w) ==
    LET a == ArithValue(w, arith_a)
    IN ArithOutcome(op, a, <<>>, "", wrapping_neg(a))

\* IDIV and LDIV
DIV(op, w) ==
    LET a == ArithValue(w, arith_a)
        b == ArithValue(w, arith_b)
    IN IF a = zero_of(a)
       THEN ArithOutcome(op, a, b, "java/lang/ArithmeticException", <<>>)
       ELSE ArithOutcome(op, a, b, "", i_wrapping_div(b, a))

\* IREM and LREM
REM(op, w) ==
    LET a == ArithValue(w, arith_a)
        b == ArithValue(w, arith_b)
    IN IF a = zero_of(a)
       THEN ArithOutcome(op, a, b, "java/lang/ArithmeticException", <<>>)
       ELSE ArithOutcome(op, a, b, "", wrapping_rem(b, a))

IADD == ADD("IADD", IntBits)
LADD == ADD("LADD", LongBits)
ISUB == SUB("ISUB", IntBits)
LSUB == SUB("LSUB", LongBits)
IMUL == MUL("IMUL", IntBits)
LMUL == MUL("LMUL", LongBits)
INEG == NEG("INEG", IntBits)
LNEG == NEG("LNEG", LongBits)
IDIV == DIV("IDIV", IntBits)
LDIV == DIV("LDIV", LongBits)
IREM == REM("IREM", IntBits)
LREM == REM("LREM", LongBits)

(***************************************************************************)
(* Part 16.  NEWARRAY, ANEWARRAY and MULTIANEWARRAY.                       *)
(***************************************************************************)
MaxNewArrays == 2
NewArrayCounts == -1 .. 2
\* the dimensions MULTIANEWARRAY pops, the first dimension first
NewArrayDims == UNION { [1 .. n -> NewArrayCounts] : n \in 1 .. 2 }

NoNewArray == <<>>

NewArrayIdle == new_arrays = <<>> /\ newarray_out = NoNewArray

InitNewArray ==
    /\ new_arrays = <<>>
    /\ newarray_out = NoNewArray

\* no count is ever taken for negative
never_negative(count) == FALSE

\* `count < 0`
negative(count) == count < 0

\* Heap::allocate_array::<T>(count, class): <<the arrays, the id>>
na_allocate_array(arrays, count, class) ==
    <<Append(arrays, [class |-> class, elems |-> [k \in 1 .. count |-> 0]]),
      Len(arrays) + 1>>

\* the instruction raises, or pushes id
NewArrayOutcome(op, name, counts, err, id, arrays) ==
    /\ Len(new_arrays) < MaxNewArrays
    /\ newarray_out' = [op |-> op, name |-> name, counts |-> counts, raised |-> err,
                        id |-> id]
    /\ new_arrays' = arrays
    /\ UNCHANGED NotNewArray

\* the class of the array NEWARRAY makes: "[" + to_descriptor of T_INT (10)
\* or T_LONG (11)
primitive_array_name(atype) == IF atype = 10 THEN <<"[", "I">> ELSE <<"[", "J">>

\* InterpreterEnv::new_array
new_array(atype, count) ==
    IF negative(count)
    THEN NewArrayOutcome("NEWARRAY", primitive_array_name(atype), <<count>>,
                         "java/lang/NegativeArraySizeException", 0, new_arrays)
    ELSE LET r == na_allocate_array(new_arrays, count, primitive_array_name(atype))
         IN NewArrayOutcome("NEWARRAY", primitive_array_name(atype), <<count>>, "",
                            r[2], r[1])

\* InterpreterEnv::new_object_array
new_object_array(count) ==
    IF negative(count)
    THEN NewArrayOutcome("ANEWARRAY", <<"A">>, <<count>>,
                         "java/lang/NegativeArraySizeException", 0, new_arrays)
    ELSE LET r == na_allocate_array(new_arrays, count, <<"[", "A">>)
         IN NewArrayOutcome("ANEWARRAY", <<"A">>, <<count>>, "", r[2], r[1])

NEWARRAY == \E atype \in {10, 11}, count \in NewArrayCounts : new_array(atype, count)
ANEWARRAY == \E count \in NewArrayCounts : new_object_array(count)

(***************************************************************************)
(* Part 17.  Object.clone.                                                 *)
(* The guest creates objects, writes their fields or elements and calls    *)
(* clone; it never deallocates.  A write reaches the allocation (ptr) the  *)
(* identifier denotes.                                                     *)
(***************************************************************************)
MaxCloneObjects == 3
CloneObjectClasses == {"C", "Cell", "SubCell", "[I"}
\* the number of slots (elements) of a new object of each class
CloneSlots == ( "C" :> 1 ) @@ ( "Cell" :> 1 ) @@ ( "SubCell" :> 2 ) @@ ( "[I" :> 2 )
CloneValues == {0, 5}

NoClone == [object |-> 0, err |-> "", id |-> 0]
CloneIdle == clone_out = NoClone
InitClone == clone_out = NoClone

\* NEW / NEWARRAY of the guest
CloneNew ==
    /\ heap_ptrs < MaxCloneObjects
    /\ \E class \in CloneObjectClasses : allocate(CloneSlots[class], class, 0)

\* PUTFIELD / IASTORE of the guest: the write goes to the allocation
ClonePut ==
    /\ \E id \in LiveIds : \E k \in DOMAIN heap[id].payload : \E v \in CloneValues :
        /\ heap[id].payload[k] # v
        /\ heap' = [i \in DOMAIN heap |->
                      IF heap[i].ptr = heap[id].ptr
                      THEN [heap[i] EXCEPT !.payload[k] = v]
                      ELSE heap[i]]
    /\ UNCHANGED <<next_id, heap_ptrs, heap_live>>
    /\ UNCHANGED NotHeap

\* a copy whose payload is left as the allocator returned it
zeroed(obj, ptr) ==
    [ptr |-> ptr, class |-> obj.class, payload |-> [k \in DOMAIN obj.payload |-> 0]]

\* Heap::clone_object lines 121-136: a new allocation of the same layout; the
\* class is written, then the payload is copied byte by byte
copy_nonoverlapping(obj, ptr) ==
    [ptr |-> ptr, class |-> obj.class, payload |-> obj.payload]

\* native_object_clone
native_object_clone(obj_id) ==
    /\ heap_has(obj_id)
    /\ LET object == heap[obj_id]
       IN IF ~is_class_implements(object.class, "java/lang/Cloneable")
          THEN /\ clone_out' = [object |-> obj_id,
                                err |-> "java/lang/CloneNotSupportedException",
                                id |-> 0]
               /\ UNCHANGED HeapVars
          ELSE /\ heap_ptrs < MaxCloneObjects
               /\ LET copy == copy_nonoverlapping(object, heap_ptrs + 1)
                      r == allocate_id_for_obj(heap, next_id, copy)
                  IN /\ heap' = r[1]
                     /\ next_id' = r[2]
                     /\ heap_live' = heap_live \cup {[id |-> r[3], ptr |-> copy.ptr]}
                     /\ clone_out' = [object |-> obj_id, err |-> "", id |-> r[3]]
               /\ heap_ptrs' = heap_ptrs + 1
    /\ UNCHANGED NotClone

\* Object.clone() called on an object the guest holds
CloneCall == \E obj_id \in LiveIds : native_object_clone(obj_id)

(***************************************************************************)
(* Part 18.  parse_constant_pool.                                          *)
(* The input is the u16 count and the cp_info structures that follow it,   *)
(* each given by its tag; what follows the constants is not looked at.     *)
(***************************************************************************)
MaxPoolCount == 5
MaxConstants == 4
ConstantTags == {"Utf8", "Integer", "Long", "Double", "Class"}

PoolInputs ==
    { [count |-> n, constants |-> cs] :
        n \in 1..MaxPoolCount,
        cs \in UNION {[1..k -> ConstantTags] : k \in 0..MaxConstants} }

NoParse == [result |-> "", constant_pool |-> <<>>, rest |-> <<>>]
ParserIdle == cp_input = <<>> /\ cp_parsed = <<>>
InitParser == cp_input \in PoolInputs /\ cp_parsed = NoParse

\* matches!(constant, ConstantPoolInfo::Long(_) | ConstantPoolInfo::Double(_))
need_empty(constant) == constant \in {"Long", "Double"}

\* the while loop of parse_constant_pool: parse_constant fails on an input
\* that has ended
RECURSIVE parse_constants(_, _, _)
parse_constants(input, constant_pool, constant_pool_count) ==
    IF Len(constant_pool) < constant_pool_count - 1
    THEN IF input = <<>>
         THEN [result |-> "Err", constant_pool |-> <<>>, rest |-> <<>>]
         ELSE LET constant == Head(input)
                  pushed == Append(constant_pool, constant)
              IN parse_constants(Tail(input),
                                 IF need_empty(constant) THEN Append(pushed, "Empty")
                                 ELSE pushed,
                                 constant_pool_count)
    ELSE [result |-> "Ok", constant_pool |-> constant_pool, rest |-> input]

\* parse_constant_pool
parse_constant_pool ==
    /\ cp_parsed = NoParse
    /\ cp_parsed' = parse_constants(cp_input.constants, <<>>, cp_input.count)
    /\ UNCHANGED cp_input
    /\ UNCHANGED NotParser

(***************************************************************************)
(* Part 19.  resolve_class of an array name.                               *)
(* A name is the sequence of its characters.  A FieldType is <<"Int">>,    *)
(* ..., <<"Object", class name>> or <<"Array", element type>>.             *)
(***************************************************************************)
MaxDims == 3
MaxArrayClasses == 2

BaseTypeChars ==
    ( "B" :> <<"Byte">> ) @@ ( "C" :> <<"Char">> ) @@ ( "D" :> <<"Double">> ) @@
    ( "F" :> <<"Float">> ) @@ ( "I" :> <<"Int">> ) @@ ( "J" :> <<"Long">> ) @@
    ( "S" :> <<"Short">> ) @@ ( "Z" :> <<"Boolean">> )

\* the element classes the guest names: A, p/A and It
ElementClassNames == { <<"A">>, <<"p", "/", "A">>, <<"I", "t">> }

ElementTypes ==
    { BaseTypeChars[c] : c \in DOMAIN BaseTypeChars }
        \cup { <<"Object", n>> : n \in ElementClassNames }

RECURSIVE ArrayTypes(_)
ArrayTypes(dims) ==
    IF dims = 0 THEN ElementTypes
    ELSE { <<"Array", t>> : t \in ArrayTypes(dims - 1) }

\* FieldType::to_descriptor
RECURSIVE to_descriptor(_)
to_descriptor(field_type) ==
    IF field_type[1] = "Object" THEN <<"L">> \o field_type[2] \o <<";">>
    ELSE IF field_type[1] = "Array" THEN <<"[">> \o to_descriptor(field_type[2])
    ELSE <<CHOOSE c \in DOMAIN BaseTypeChars : BaseTypeChars[c] = field_type>>

\* the array names a constant pool can hold
ArrayNames == { to_descriptor(t) : t \in UNION { ArrayTypes(d) : d \in 1..MaxDims } }

\* take_until(";"): the index of the first ";", 0 when there is none
first_semicolon(input) ==
    IF \E k \in DOMAIN input : input[k] = ";"
    THEN CHOOSE k \in DOMAIN input : input[k] = ";" /\ \A j \in 1..(k - 1) : input[j] # ";"
    ELSE 0

\* parse_field_type: <<"Ok", rest, field type>> or <<"Err">>
RECURSIVE parse_field_type(_)
parse_field_type(input) ==
    IF input = <<>> THEN <<"Err">>
    ELSE IF Head(input) \in DOMAIN BaseTypeChars
         THEN <<"Ok", Tail(input), BaseTypeChars[Head(input)]>>
    ELSE IF Head(input) = "L"
         THEN LET k == first_semicolon(Tail(input))
              IN IF k = 0 THEN <<"Err">>
                 ELSE <<"Ok", SubSeq(Tail(input), k + 1, Len(input) - 1),
                        <<"Object", SubSeq(Tail(input), 1, k - 1)>>>>
    ELSE IF Head(input) = "["
         THEN LET r == parse_field_type(Tail(input))
              IN IF r[1] = "Err" THEN r ELSE <<"Ok", r[2], <<"Array", r[3]>>>>
    ELSE <<"Err">>

\* parse_field_descriptor: parse_field_type, then eof
parse_field_descriptor(input) ==
    LET r == parse_field_type(input)
    IN IF r[1] = "Ok" /\ r[2] # <<>> THEN <<"Err">> ELSE r

\* gen_array_class and define_array: array_element_type <<>> is None,
\* otherwise <<the name of the element class>>
define_array(class_name, ele_class) ==
    [class_name |-> class_name, array_element_type |-> ele_class]

NoArrayClass == [class_name |-> <<>>, array_element_type |-> <<>>]
NoResolved == [name |-> <<>>, class |-> NoArrayClass]
NoArrayType == [class |-> NoArrayClass, result |-> <<>>]

ArrayClassIdle ==
    array_registry = {} /\ array_resolved = <<>> /\ array_type = <<>>

InitArrayClass ==
    /\ array_registry = {}
    /\ array_resolved = NoResolved
    /\ array_type = NoArrayType

\* class_cell.get_or_try_init(|| self.define_array(class_name, ele_class)):
\* <<the class, the registry afterwards>>
get_or_try_init(registry, class_name, ele_class) ==
    IF \E c \in registry : c.class_name = class_name
    THEN <<CHOOSE c \in registry : c.class_name = class_name, registry>>
    ELSE <<define_array(class_name, ele_class),
           registry \cup {define_array(class_name, ele_class)}>>

\* resolve_primitive_array_class
resolve_primitive_array_class(registry, field_type) ==
    get_or_try_init(registry, <<"[">> \o to_descriptor(field_type), <<>>)

\* resolve_object_array_class of the element class named ele_class_name
resolve_object_array_class(registry, ele_class_name) ==
    get_or_try_init(registry, <<"[">> \o ele_class_name, <<ele_class_name>>)

\* resolve_array_class_with_field_type of Array(element)
RECURSIVE resolve_array_class_with_field_type(_, _)
resolve_array_class_with_field_type(registry, field_type) ==
    LET element == field_type[2]
    IN IF element[1] = "Object" THEN resolve_object_array_class(registry, element[2])
       ELSE IF element[1] = "Array"
            THEN resolve_array_class_with_field_type(registry, element)
            ELSE resolve_primitive_array_class(registry, element)

\* BootstrapClassLoader::resolve_class of a name beginning with '['
resolve_array_class(class_name) ==
    /\ Cardinality(array_registry) < MaxArrayClasses
    /\ LET field_type == parse_field_descriptor(class_name)[3]
           r == resolve_array_class_with_field_type(array_registry, field_type)
       IN /\ array_registry' = r[2]
          /\ array_resolved' = [name |-> class_name, class |-> r[1]]
    /\ array_type' = NoArrayType
    /\ UNCHANGED NotArrayClass

\* inheritance::get_array_type: <<"None">>, <<"Some", element type>> or
\* <<"panic">> (expect("invalid array type"), panic!("invalid array type"))
get_array_type_of(class) ==
    IF class.class_name = <<>> \/ Head(class.class_name) # "["
    THEN <<"None">>
    ELSE LET r == parse_field_descriptor(class.class_name)
         IN IF r[1] = "Err" THEN <<"panic">>
            ELSE IF r[3][1] # "Array" THEN <<"panic">>
            ELSE <<"Some", r[3][2]>>

\* get_array_type of the class resolve_class returned
GetArrayType ==
    /\ array_resolved # NoResolved
    /\ array_type = NoArrayType
    /\ array_type' = [class |-> array_resolved.class,
                      result |-> get_array_type_of(array_resolved.class)]
    /\ UNCHANGED <<array_registry, array_resolved>>
    /\ UNCHANGED NotArrayClass

ResolveArrayClass == \E class_name \in ArrayNames : resolve_array_class(class_name)

(***************************************************************************)
(* Part 16, continued.  MULTIANEWARRAY: the class of each level is         *)
(* resolved with resolve_class of Part 19.                                 *)
(***************************************************************************)
\* the array classes MULTIANEWARRAY names
MultiNames ==
    { to_descriptor(t) :
        t \in { f \in ArrayTypes(1) \cup ArrayTypes(2) :
                  \A n \in ElementClassNames \ {<<"A">>} :
                      f # <<"Array", <<"Object", n>>>> /\
                      f # <<"Array", <<"Array", <<"Object", n>>>>>> } }

\* the number of leading "[" of a class name
RECURSIVE dimensions_of(_)
dimensions_of(name) ==
    IF name # <<>> /\ Head(name) = "[" THEN 1 + dimensions_of(Tail(name)) ELSE 0

\* FieldType::get_field_type_size of a parsed field type
field_type_size(field_type) ==
    IF field_type[1] \in {"Byte", "Boolean"} THEN 1
    ELSE IF field_type[1] \in {"Char", "Short"} THEN 2
    ELSE IF field_type[1] \in {"Double", "Long"} THEN 8
    ELSE 4

\* resolve_class(arr_class_name): the name of the class returned
resolved_class_name(arr_class_name) ==
    resolve_array_class_with_field_type(
        {}, parse_field_descriptor(arr_class_name)[3])[1].class_name

\* new_multi_object_array_dim: the array is allocated with allocate_array::<u32>,
\* then element i from 0 up to count - 1 is filled:
\* <<"ok" or "panic", the arrays, the id>>
RECURSIVE new_multi_object_array_dim(_, _, _)
RECURSIVE fill_elements(_, _, _, _, _)
new_multi_object_array_dim(arr_class_name, dim, arrays) ==
    LET r == na_allocate_array(arrays, dim[1], resolved_class_name(arr_class_name))
    IN fill_elements(arr_class_name, dim, r[1], r[2], 0)
fill_elements(arr_class_name, dim, arrays, id, i) ==
    LET element_class_name == Tail(arr_class_name)
        filed_type == parse_field_descriptor(element_class_name)[3]
        size == field_type_size(filed_type)
    IN IF i >= dim[1] THEN <<"ok", arrays, id>>
       ELSE IF Len(dim) = 1
            \* array[i * size .. (i + 1) * size] of the 4 * count bytes
            THEN IF (i + 1) * size > 4 * Len(arrays[id].elems)
                 THEN <<"panic", arrays, id>>
                 ELSE fill_elements(arr_class_name, dim, arrays, id, i + 1)
            ELSE LET element == new_multi_object_array_dim(element_class_name,
                                                           Tail(dim), arrays)
                 IN IF element[1] = "panic" THEN <<"panic", element[2], id>>
                    ELSE fill_elements(arr_class_name, dim,
                                       [element[2] EXCEPT ![id].elems[i + 1] = element[3]],
                                       id, i + 1)

\* InterpreterEnv::new_multi_object_array: every dimension is popped and
\* tested before anything is allocated
new_multi_object_array(name, dims) ==
    IF \E k \in DOMAIN dims : negative(dims[k])
    THEN NewArrayOutcome("MULTIANEWARRAY", name, dims,
                         "java/lang/NegativeArraySizeException", 0, new_arrays)
    ELSE LET r == new_multi_object_array_dim(name, dims, new_arrays)
         IN NewArrayOutcome("MULTIANEWARRAY", name, dims,
                            IF r[1] = "panic" THEN "panic" ELSE "", r[3], r[2])

MULTIANEWARRAY ==
    \E name \in MultiNames, dims \in NewArrayDims :
        /\ Len(dims) <= dimensions_of(name)
        /\ new_multi_object_array(name, dims)

(***************************************************************************)
(* Part 20.  LOOKUPSWITCH and TABLESWITCH.                                 *)
(* code[pc] of the source is code[pc + 1] here; a code byte is 0 .. 255.   *)
(***************************************************************************)
MaxSwitchPc == 13
SwitchKeys == {0, 1, 3, 4}
SwitchDefault == 40
SwitchOffsets == <<48, 56>>

\* the big-endian bytes of a non-negative int below 2^24
be_i32(v) == <<0, v \div 65536, (v \div 256) % 256, v % 256>>

\* 0 to 3 bytes so that what follows starts at a multiple of 4
SwitchPadding(start_pc) == [k \in 1..(3 - (start_pc % 4)) |-> 0]

\* nop * start_pc; lookupswitch { 1: +48; 3: +56; default: +40 }
LookupCode(start_pc) ==
    [k \in 1..start_pc |-> 0] \o <<171>> \o SwitchPadding(start_pc)
        \o be_i32(SwitchDefault) \o be_i32(2)
        \o be_i32(1) \o be_i32(SwitchOffsets[1])
        \o be_i32(3) \o be_i32(SwitchOffsets[2])

\* nop * start_pc; tableswitch 3 to 4 { +48; +56; default: +40 }
TableCode(start_pc) ==
    [k \in 1..start_pc |-> 0] \o <<170>> \o SwitchPadding(start_pc)
        \o be_i32(SwitchDefault) \o be_i32(3) \o be_i32(4)
        \o be_i32(SwitchOffsets[1]) \o be_i32(SwitchOffsets[2])

SwitchInputs ==
    { [op |-> op, start_pc |-> p, key |-> k,
       code |-> IF op = "LOOKUPSWITCH" THEN LookupCode(p) ELSE TableCode(p)] :
      op \in {"LOOKUPSWITCH", "TABLESWITCH"}, p \in 0..MaxSwitchPc, k \in SwitchKeys }

NoSwitch == <<"none">>
SwitchIdle == switch_in = <<>> /\ switch_out = <<>>
InitSwitch == switch_in \in SwitchInputs /\ switch_out = NoSwitch

\* get_i32_args_from(pc): (byte1 << 24) | (byte2 << 16) | (byte3 << 8) | byte4
\* of code[pc + 1 .. pc + 4] as i32; <<"panic">> past the end of the code
get_i32_args_from(code, at) ==
    IF at < 0 \/ at + 5 > Len(code) THEN <<"panic">>
    ELSE LET byte1 == code[at + 2]
             signed == IF byte1 >= 128 THEN byte1 - 256 ELSE byte1
         IN <<"ok", signed * 16777216 + code[at + 3] * 65536
                      + code[at + 4] * 256 + code[at + 5]>>

\* (*self.pc & 4) + 3
pc_and_4_plus_3(at) == (IF (at \div 4) % 2 = 1 THEN 4 ELSE 0) + 3

\* usize::wrapping_add_signed: a result below 0 wraps to an address far
\* beyond any code
wrapping_add_signed(start_pc, offset) ==
    IF start_pc + offset < 0 THEN <<"pc", -1>> ELSE <<"pc", start_pc + offset>>

\* the loop over the pairs of lookup_switch, i pairs read so far, the
\* operands being read from address at on
RECURSIVE lookup_pairs(_, _, _, _, _, _, _)
lookup_pairs(code, start_pc, default, npairs, key, i, at) ==
    IF i >= npairs THEN wrapping_add_signed(start_pc, default)
    ELSE LET mat == get_i32_args_from(code, at)
             offset == get_i32_args_from(code, at + 4)
         IN IF mat[1] = "panic" \/ offset[1] = "panic" THEN <<"panic">>
            ELSE IF key = mat[2] THEN wrapping_add_signed(start_pc, offset[2])
            ELSE lookup_pairs(code, start_pc, default, npairs, key, i + 1, at + 8)

\* InterpreterEnv::lookup_switch
lookup_switch(code, start_pc, key) ==
    LET at == pc_and_4_plus_3(start_pc)
        default == get_i32_args_from(code, at)
        npairs == get_i32_args_from(code, at + 4)
    IN IF default[1] = "panic" \/ npairs[1] = "panic" THEN <<"panic">>
       ELSE lookup_pairs(code, start_pc, default[2], npairs[2], key, 0, at + 8)

\* InterpreterEnv::table_switch
table_switch(code, start_pc, index) ==
    LET at == pc_and_4_plus_3(start_pc)
        default == get_i32_args_from(code, at)
        low == get_i32_args_from(code, at + 4)
        high == get_i32_args_from(code, at + 8)
    IN IF default[1] = "panic" \/ low[1] = "panic" \/ high[1] = "panic"
       THEN <<"panic">>
       ELSE IF index < low[2] \/ index > high[2]
            THEN wrapping_add_signed(start_pc, default[2])
            ELSE LET pos == index - low[2]
                     \* an address past the code needs no multiplication
                     offset == IF pos >= Len(code) THEN <<"panic">>
                               ELSE get_i32_args_from(code, at + 12 + 4 * pos)
                 IN IF offset[1] = "panic" THEN <<"panic">>
                    ELSE wrapping_add_signed(start_pc, offset[2])

\* LOOKUPSWITCH
LOOKUPSWITCH ==
    /\ switch_out = NoSwitch
    /\ switch_in.op = "LOOKUPSWITCH"
    /\ switch_out' = lookup_switch(switch_in.code, switch_in.start_pc, switch_in.key)
    /\ UNCHANGED switch_in
    /\ UNCHANGED NotSwitch

\* TABLESWITCH
TABLESWITCH ==
    /\ switch_out = NoSwitch
    /\ switch_in.op = "TABLESWITCH"
    /\ switch_out' = table_switch(switch_in.code, switch_in.start_pc, switch_in.key)
    /\ UNCHANGED switch_in
    /\ UNCHANGED NotSwitch

(***************************************************************************)
(* Part 21.  IINC.                                                         *)
(* local index of the source is locals[index + 1] here.                    *)
(***************************************************************************)
\* the values of the local incremented
IincLocals == {0, 5, -1, -300, 2147483647, -2147483647 - 1}

\* the operand bytes after the opcode: index and const, one byte each, or
\* two bytes each after the wide prefix
IincOperands(wide) ==
    IF wide
    THEN { <<0, i, c[1], c[2]>> :
             i \in {0, 1}, c \in {<<0, 1>>, <<0, 255>>, <<127, 255>>, <<128, 0>>, <<255, 255>>} }
    ELSE { <<i, c>> : i \in {0, 1}, c \in {0, 1, 127, 128, 255} }

IincInputs ==
    UNION { { [wide |-> w, code |-> code, locals |-> <<v, 9>>] :
                code \in IincOperands(w), v \in IincLocals } : w \in BOOLEAN }

NoIinc == [result |-> "none", locals |-> <<>>]
IincIdle == iinc_in = <<>> /\ iinc_out = <<>>
InitIinc == iinc_in \in IincInputs /\ iinc_out = NoIinc

\* get_u8_args at offset at of the operands
get_u8_args_at(code, at) == code[at + 1]

\* get_u16_args at offset at of the operands: (byte1 << 8) | byte2
get_u16_args_at(code, at) == code[at + 1] * 256 + code[at + 2]

\* the IINC arm of the interpreter loop; on overflow the build with overflow
\* checks panics, the build without them wraps
IINC ==
    /\ iinc_out = NoIinc
    /\ LET wide == iinc_in.wide
           index == IF wide THEN get_u16_args_at(iinc_in.code, 0)
                    ELSE get_u8_args_at(iinc_in.code, 0)
           con == IF wide THEN get_u16_args_at(iinc_in.code, 2)
                  ELSE get_u8_args_at(iinc_in.code, 1)
           sum == i32_add(iinc_in.locals[index + 1], con)
       IN IF sum[1] = "ok"
          THEN iinc_out' = [result |-> "ok",
                            locals |-> [iinc_in.locals EXCEPT ![index + 1] = sum[2]]]
          ELSE \/ iinc_out' = [result |-> "panic", locals |-> iinc_in.locals]
               \/ iinc_out' =
                    [result |-> "ok",
                     locals |-> [iinc_in.locals EXCEPT
                                   ![index + 1] = i32_wrapping_add(@, con)]]
    /\ UNCHANGED iinc_in
    /\ UNCHANGED NotIinc

(***************************************************************************)
(* Specifications                                                        *)
(***************************************************************************)
InitSpecLong == InitLong /\ HeapIdle /\ InitIdle /\ LoadIdle /\ ExecIdle /\ VtableIdle /\ StringIdle /\ ShiftIdle /\ CastIdle /\ ArrayIdle /\ MonitorIdle /\ DepthIdle /\ FieldIdle /\ PayloadIdle /\ ArithIdle /\ NewArrayIdle /\ CloneIdle /\ ParserIdle /\ ArrayClassIdle /\ SwitchIdle /\ IincIdle
NextLong == push_long \/ pop_long
SpecLong == InitSpecLong /\ [][NextLong]_vars

InitSpecHeap == InitHeap /\ LongIdle /\ InitIdle /\ LoadIdle /\ ExecIdle /\ VtableIdle /\ StringIdle /\ ShiftIdle /\ CastIdle /\ ArrayIdle /\ MonitorIdle /\ DepthIdle /\ FieldIdle /\ PayloadIdle /\ ArithIdle /\ NewArrayIdle /\ CloneIdle /\ ParserIdle /\ ArrayClassIdle /\ SwitchIdle /\ IincIdle
NextHeap == allocate_object \/ allocate_array \/ clone_object \/ deallocate
SpecHeap == InitSpecHeap /\ [][NextHeap]_vars

InitSpecInit == InitInit /\ LongIdle /\ HeapIdle /\ LoadIdle /\ ExecIdle /\ VtableIdle /\ StringIdle /\ ShiftIdle /\ CastIdle /\ ArrayIdle /\ MonitorIdle /\ DepthIdle /\ FieldIdle /\ PayloadIdle /\ ArithIdle /\ NewArrayIdle /\ CloneIdle /\ ParserIdle /\ ArrayClassIdle /\ SwitchIdle /\ IincIdle
NextInit ==
    \E t \in InitThreads :
        \/ \E c \in ClassNames : InitCall(t, c)
        \/ InitEnter(t)
        \/ InitSuper(t)
        \/ InitInterfaces(t)
        \/ InitPropagate(t)
        \/ InitClinit(t)
        \/ InitBody(t)
        \/ InitBodyResume(t)
SpecInit == InitSpecInit /\ [][NextInit]_vars

InitSpecLoad == InitLoad /\ LongIdle /\ HeapIdle /\ InitIdle /\ ExecIdle /\ VtableIdle /\ StringIdle /\ ShiftIdle /\ CastIdle /\ ArrayIdle /\ MonitorIdle /\ DepthIdle /\ FieldIdle /\ PayloadIdle /\ ArithIdle /\ NewArrayIdle /\ CloneIdle /\ ParserIdle /\ ArrayClassIdle /\ SwitchIdle /\ IincIdle
NextLoad ==
    \E t \in LoadThreads :
        \/ \E name \in ClassNames : LoadCall(t, name)
        \/ LoadEntry(t)
        \/ LoadWait(t)
        \/ LoadGetOrInit(t)
        \/ LoadSuper(t)
        \/ LoadInterfaces(t)
        \/ LoadResume(t)
        \/ LoadDefine(t)
SpecLoad == InitSpecLoad /\ [][NextLoad]_vars

InitSpecExec == InitExec /\ InitHeap /\ LongIdle /\ InitIdle /\ LoadIdle /\ VtableIdle /\ StringIdle /\ ShiftIdle /\ CastIdle /\ ArrayIdle /\ MonitorIdle /\ DepthIdle /\ FieldIdle /\ PayloadIdle /\ ArithIdle /\ NewArrayIdle /\ CloneIdle /\ ParserIdle /\ ArrayClassIdle /\ SwitchIdle /\ IincIdle
NextExec ==
    \/ ExecConst
    \/ ExecBipush
    \/ ExecLoad
    \/ ExecStore
    \/ ExecNew
    \/ ExecIdiv
    \/ ExecIadd
    \/ ExecFetchPanic
    \/ ExecInvokeStatic
    \/ ExecInvokeSpecial
    \/ ExecReturn
SpecExec == InitSpecExec /\ [][NextExec]_vars

InitSpecVtable == InitVtable /\ LongIdle /\ HeapIdle /\ InitIdle /\ LoadIdle /\ ExecIdle /\ StringIdle /\ ShiftIdle /\ CastIdle /\ ArrayIdle /\ MonitorIdle /\ DepthIdle /\ FieldIdle /\ PayloadIdle /\ ArithIdle /\ NewArrayIdle /\ CloneIdle /\ ParserIdle /\ ArrayClassIdle /\ SwitchIdle /\ IincIdle
NextVtable ==
    \/ \E name \in VClassNames : DefineClass(name)
    \/ \E static_class, this_class \in VClassNames, index \in 0 .. 1,
          is_virtual \in BOOLEAN :
          InvokeSpecial(static_class, index, is_virtual, this_class)
SpecVtable == InitSpecVtable /\ [][NextVtable]_vars

InitSpecString == InitString /\ LongIdle /\ HeapIdle /\ InitIdle /\ LoadIdle /\ ExecIdle /\ VtableIdle /\ ShiftIdle /\ CastIdle /\ ArrayIdle /\ MonitorIdle /\ DepthIdle /\ FieldIdle /\ PayloadIdle /\ ArithIdle /\ NewArrayIdle /\ CloneIdle /\ ParserIdle /\ ArrayClassIdle /\ SwitchIdle /\ IincIdle
NextString ==
    \/ \E string \in BytesUpTo(MaxStringLen), has_multi_bytes \in BOOLEAN :
          intern_string(string, has_multi_bytes)
    \/ \E class \in MirrorClasses : get_class_object(class)
SpecString == InitSpecString /\ [][NextString]_vars

InitSpecShift == InitShift /\ LongIdle /\ HeapIdle /\ InitIdle /\ LoadIdle /\ ExecIdle /\ VtableIdle /\ StringIdle /\ CastIdle /\ ArrayIdle /\ MonitorIdle /\ DepthIdle /\ FieldIdle /\ PayloadIdle /\ ArithIdle /\ NewArrayIdle /\ CloneIdle /\ ParserIdle /\ ArrayClassIdle /\ SwitchIdle /\ IincIdle
NextShift == ISHL \/ ISHR \/ IUSHR \/ LSHL \/ LSHR \/ LUSHR
SpecShift == InitSpecShift /\ [][NextShift]_vars

InitSpecCast == InitCast /\ LongIdle /\ HeapIdle /\ InitIdle /\ LoadIdle /\ ExecIdle /\ VtableIdle /\ StringIdle /\ ShiftIdle /\ ArrayIdle /\ MonitorIdle /\ DepthIdle /\ FieldIdle /\ PayloadIdle /\ ArithIdle /\ NewArrayIdle /\ CloneIdle /\ ParserIdle /\ ArrayClassIdle /\ SwitchIdle /\ IincIdle
NextCast == CHECKCAST \/ INSTANCEOF
SpecCast == InitSpecCast /\ [][NextCast]_vars

InitSpecArray == InitArray /\ LongIdle /\ HeapIdle /\ InitIdle /\ LoadIdle /\ ExecIdle /\ VtableIdle /\ StringIdle /\ ShiftIdle /\ CastIdle /\ MonitorIdle /\ DepthIdle /\ FieldIdle /\ PayloadIdle /\ ArithIdle /\ NewArrayIdle /\ CloneIdle /\ ParserIdle /\ ArrayClassIdle /\ SwitchIdle /\ IincIdle
NextArray == IALOAD \/ IASTORE
SpecArray == InitSpecArray /\ [][NextArray]_vars

InitSpecCopy == InitCopy /\ LongIdle /\ HeapIdle /\ InitIdle /\ LoadIdle /\ ExecIdle /\ VtableIdle /\ StringIdle /\ ShiftIdle /\ CastIdle /\ MonitorIdle /\ DepthIdle /\ FieldIdle /\ PayloadIdle /\ ArithIdle /\ NewArrayIdle /\ CloneIdle /\ ParserIdle /\ ArrayClassIdle /\ SwitchIdle /\ IincIdle
NextCopy == arraycopy
SpecCopy == InitSpecCopy /\ [][NextCopy]_vars

NextAastore == AASTORE
SpecAastore == InitSpecCopy /\ [][NextAastore]_vars

InitSpecMonitor == InitMonitor /\ LongIdle /\ HeapIdle /\ InitIdle /\ LoadIdle /\ ExecIdle /\ VtableIdle /\ StringIdle /\ ShiftIdle /\ CastIdle /\ ArrayIdle /\ DepthIdle /\ FieldIdle /\ PayloadIdle /\ ArithIdle /\ NewArrayIdle /\ CloneIdle /\ ParserIdle /\ ArrayClassIdle /\ SwitchIdle /\ IincIdle
NextMonitor ==
    \E t \in MonitorThreads, obj_ref \in MonitorObjects \cup {0} :
        \/ MONITORENTER(t, obj_ref)
        \/ MONITOREXIT(t, obj_ref)
SpecMonitor == InitSpecMonitor /\ [][NextMonitor]_vars

InitSpecDepth == InitDepth /\ InitHeap /\ LongIdle /\ InitIdle /\ LoadIdle /\ VtableIdle /\ StringIdle /\ ShiftIdle /\ CastIdle /\ ArrayIdle /\ MonitorIdle /\ FieldIdle /\ PayloadIdle /\ ArithIdle /\ NewArrayIdle /\ CloneIdle /\ ParserIdle /\ ArrayClassIdle /\ SwitchIdle /\ IincIdle
NextDepth ==
    \/ ExecConst
    \/ ExecLoad
    \/ (Len(top_frame) < MaxFrames /\ ExecInvokeStatic)
    \/ ExecReturn
SpecDepth == InitSpecDepth /\ [][NextDepth]_vars



InitSpecField == InitField /\ LongIdle /\ HeapIdle /\ InitIdle /\ LoadIdle /\ ExecIdle /\ VtableIdle /\ StringIdle /\ ShiftIdle /\ CastIdle /\ ArrayIdle /\ MonitorIdle /\ DepthIdle /\ PayloadIdle /\ ArithIdle /\ NewArrayIdle /\ CloneIdle /\ ParserIdle /\ ArrayClassIdle /\ SwitchIdle /\ IincIdle
NextField ==
    \E name \in FieldClassNames :
        \/ DefineFields(name)
        \/ \E key \in FieldKeys : ResolveField(name, key)
SpecField == InitSpecField /\ [][NextField]_vars

InitSpecPayload == InitPayload /\ LongIdle /\ HeapIdle /\ InitIdle /\ LoadIdle /\ ExecIdle /\ VtableIdle /\ StringIdle /\ ShiftIdle /\ CastIdle /\ ArrayIdle /\ MonitorIdle /\ DepthIdle /\ FieldIdle /\ ArithIdle /\ NewArrayIdle /\ CloneIdle /\ ParserIdle /\ ArrayClassIdle /\ SwitchIdle /\ IincIdle
NextPayload ==
    \/ \E index \in 0 .. PayloadLen - 1, v \in IntValues : put_field(index, v)
    \/ \E index \in 0 .. PayloadLen - 1 : get_field(index)
    \/ \E obj \in {"[B", "[I"}, index \in 0 .. PayloadLen - 1 :
         \E v \in PayloadValues(obj) : put_array_index(obj, index, v)
    \/ \E obj \in {"[B", "[I"}, index \in 0 .. PayloadLen - 1 : get_array_index(obj, index)
SpecPayload == InitSpecPayload /\ [][NextPayload]_vars

InitSpecArith == InitArith /\ LongIdle /\ HeapIdle /\ InitIdle /\ LoadIdle /\ ExecIdle /\ VtableIdle /\ StringIdle /\ ShiftIdle /\ CastIdle /\ ArrayIdle /\ MonitorIdle /\ DepthIdle /\ FieldIdle /\ PayloadIdle /\ NewArrayIdle /\ CloneIdle /\ ParserIdle /\ ArrayClassIdle /\ SwitchIdle /\ IincIdle
NextArith == IADD \/ LADD \/ ISUB \/ LSUB \/ IMUL \/ LMUL \/ INEG \/ LNEG
SpecArith == InitSpecArith /\ [][NextArith]_vars

NextDivide == IDIV \/ LDIV \/ IREM \/ LREM
SpecDivide == InitSpecArith /\ [][NextDivide]_vars


InitSpecNewArray == InitNewArray /\ LongIdle /\ HeapIdle /\ InitIdle /\ LoadIdle /\ ExecIdle /\ VtableIdle /\ StringIdle /\ ShiftIdle /\ CastIdle /\ ArrayIdle /\ MonitorIdle /\ DepthIdle /\ FieldIdle /\ PayloadIdle /\ ArithIdle /\ CloneIdle /\ ParserIdle /\ ArrayClassIdle /\ SwitchIdle /\ IincIdle
NextNewArray == NEWARRAY \/ ANEWARRAY \/ MULTIANEWARRAY
SpecNewArray == InitSpecNewArray /\ [][NextNewArray]_vars

InitSpecClone == InitClone /\ InitHeap /\ LongIdle /\ InitIdle /\ LoadIdle /\ ExecIdle /\ VtableIdle /\ StringIdle /\ ShiftIdle /\ CastIdle /\ ArrayIdle /\ MonitorIdle /\ DepthIdle /\ FieldIdle /\ PayloadIdle /\ ArithIdle /\ NewArrayIdle /\ ParserIdle /\ ArrayClassIdle /\ SwitchIdle /\ IincIdle
NextClone == CloneNew \/ ClonePut \/ CloneCall
SpecClone == InitSpecClone /\ [][NextClone]_vars

InitSpecParser == InitParser /\ LongIdle /\ HeapIdle /\ InitIdle /\ LoadIdle /\ ExecIdle /\ VtableIdle /\ StringIdle /\ ShiftIdle /\ CastIdle /\ ArrayIdle /\ MonitorIdle /\ DepthIdle /\ FieldIdle /\ PayloadIdle /\ ArithIdle /\ NewArrayIdle /\ CloneIdle /\ ArrayClassIdle /\ SwitchIdle /\ IincIdle
NextParser == parse_constant_pool
SpecParser == InitSpecParser /\ [][NextParser]_vars


InitSpecArrayClass == InitArrayClass /\ LongIdle /\ HeapIdle /\ InitIdle /\ LoadIdle /\ ExecIdle /\ VtableIdle /\ StringIdle /\ ShiftIdle /\ CastIdle /\ ArrayIdle /\ MonitorIdle /\ DepthIdle /\ FieldIdle /\ PayloadIdle /\ ArithIdle /\ NewArrayIdle /\ CloneIdle /\ ParserIdle /\ SwitchIdle /\ IincIdle
NextArrayClass == ResolveArrayClass \/ GetArrayType
SpecArrayClass == InitSpecArrayClass /\ [][NextArrayClass]_vars

InitSpecSwitch == InitSwitch /\ LongIdle /\ HeapIdle /\ InitIdle /\ LoadIdle /\ ExecIdle /\ VtableIdle /\ StringIdle /\ ShiftIdle /\ CastIdle /\ ArrayIdle /\ MonitorIdle /\ DepthIdle /\ FieldIdle /\ PayloadIdle /\ ArithIdle /\ NewArrayIdle /\ CloneIdle /\ ParserIdle /\ ArrayClassIdle /\ IincIdle
NextSwitch == LOOKUPSWITCH \/ TABLESWITCH
SpecSwitch == InitSpecSwitch /\ [][NextSwitch]_vars

InitSpecIinc == InitIinc /\ LongIdle /\ HeapIdle /\ InitIdle /\ LoadIdle /\ ExecIdle /\ VtableIdle /\ StringIdle /\ ShiftIdle /\ CastIdle /\ ArrayIdle /\ MonitorIdle /\ DepthIdle /\ FieldIdle /\ PayloadIdle /\ ArithIdle /\ NewArrayIdle /\ CloneIdle /\ ParserIdle /\ ArrayClassIdle /\ SwitchIdle
NextIinc == IINC
SpecIinc == InitSpecIinc /\ [][NextIinc]_vars

(***************************************************************************)
(* Claims                                                                  *)
(***************************************************************************)

\* C1: for every i64 v, push_long(v) followed by pop_long on the same two
\* slots yields exactly v.
C1_LongRoundTrip == long_out # NoLong => long_out = long_v

\* C2: an identifier returned by an allocation and not yet deallocated keeps
\* denoting the object it was allocated for: its slot still holds that
\* object, and no later allocation has returned the same identifier.
C2_IdentifierStable ==
    \A a \in heap_live :
        /\ a.id <= Len(heap)
        /\ heap[a.id].ptr = a.ptr
        /\ \A b \in heap_live : b.id = a.id => b.ptr = a.ptr

\* C3: across all threads and all calls of initialize_class, concurrent,
\* sequential or reentrant, every class's <clinit> is executed at most once.
C3_ClinitAtMostOnce == \A c \in ClassNames : clinit_runs[c] <= 1

\* C3 witness: <clinit> of A has run once, and initialize_class(A) has
\* finished more than once (a reentrant or repeated call returned early).
C3_Witness == clinit_runs["A"] = 1 /\ init_completed["A"] >= 2

\* C4: once a class's <clinit> has thrown, the class is not treated as
\* initialized, and every attempt to initialize it that begins afterwards
\* fails with an initialization error.
C4_FailedClassFailsFast ==
    \A c \in ClassNames :
        clinit_failed[c] => (clinit_status[c] # "Init" /\ ~init_late_ok[c])

\* C5: for every name, define_class finishes at most once, the registry
\* cell has held at most one class and still holds it, and every class any
\* thread's resolve_class returned for the name is that one class.
C5_OneClassPerName ==
    \A n \in ClassNames :
        /\ define_count[n] <= 1
        /\ Cardinality(registered[n]) <= 1
        /\ registered[n] # {} =>
               /\ class_registry[n].state = "set"
               /\ registered[n] = {class_registry[n].class.ptr}
        /\ \A t \in LoadThreads : load_got[t][n] \subseteq registered[n]

\* C5 witness: two threads raced on A (one waited while the other was
\* defining it) and both calls have returned a class.
C5_Witness ==
    /\ load_raced["A"]
    /\ load_got[1]["A"] # {}
    /\ load_got[2]["A"] # {}

\* The exception-table entry item covers at_pc and its catch type is absent
\* or a class that exp_class equals or inherits from.
Matches(item, at_pc, exp_class) ==
    /\ item.start_pc <= at_pc
    /\ at_pc < item.end_pc
    /\ \/ item.catch_type = <<>>
       \/ is_same_or_sub_class_of(exp_class, item.catch_type[1])

\* The indices of the entries of a method's table that match.
MatchingEntries(method, at_pc, exp_class) ==
    {k \in 1..Len(guest.methods[method].exception_table) :
        Matches(guest.methods[method].exception_table[k], at_pc, exp_class)}

\* Some frame of the chain has a matching entry: the first frame is searched
\* at at_pc, each caller at the return address held in the two bottom slots
\* of the frame above it.
RECURSIVE SomeFrameMatches(_, _, _)
SomeFrameMatches(frames, at_pc, exp_class) ==
    IF frames = <<>> THEN FALSE
    ELSE \/ MatchingEntries(Head(frames).method, at_pc, exp_class) # {}
         \/ SomeFrameMatches(Tail(frames),
                             return_address(Head(frames).stack[1], Head(frames).stack[2]),
                             exp_class)

\* C6: an exception that the raising frame does not catch is searched for in
\* the caller frames, each at the return address of the frame popped above
\* it; execution ends with the exception only when no frame of the thread's
\* stack has a matching handler.
C6_UnwindsToCaller ==
    exec_result = "Err" =>
        ~SomeFrameMatches(raised.frames, raised.pc, raised.exception.exception_type)

\* C7: the handler entered for an exception is that of the first entry, in
\* table order, whose range contains the program counter and whose catch
\* type is absent or a class the exception's class equals or inherits from.
C7_FirstMatchingHandler ==
    handler_entry # <<>> =>
        LET K == MatchingEntries(handler_entry.method, handler_entry.at_pc,
                                 handler_entry.exception.exception_type)
            first == CHOOSE k \in K : \A j \in K : k <= j
        IN /\ K # {}
           /\ handler_entry.handler_pc =
                  guest.methods[handler_entry.method].exception_table[first].handler_pc

\* C8: when f's handler for the ArithmeticException of 10 / 0 (the handler
\* at 4, which returns -1) has run and f is over, f has delivered -1 to main
\* and main resumes at 6, the instruction after the invoke.
C8_HandlerReturnsToCaller ==
    ( /\ handler_entry # <<>>
      /\ handler_entry.method = "f"
      /\ handler_entry.handler_pc = 4
      /\ \/ exec_result # "running"
         \/ Head(top_frame).method # "f" )
    => /\ exec_result # "panic"
       /\ delivered = <<[from |-> "f", value |-> -1, return_pc |-> 6]>>

\* C9: at the entry of a handler catching a VM-raised exception, the top of
\* the operand stack is a non-null reference to an object of the raised
\* exception class.
C9_HandlerGetsThrowable ==
    (handler_entry # <<>> /\ handler_entry.exception.kind = "VmException") =>
        LET top == handler_entry.stack[Len(handler_entry.stack)]
        IN /\ top # 0
           /\ heap_has(top)
           /\ heap[top].class = handler_entry.exception.exception_type

\* The operand-stack slots the arguments of a descriptor occupy: two for a
\* long, one otherwise.
ArgSlots(parameters) ==
    Len(parameters) + Cardinality({k \in 1..Len(parameters) : parameters[k] = "J"})

\* C10: INVOKEVIRTUAL and INVOKESPECIAL raise NullPointerException exactly
\* when the receiver, the slot beneath all argument slots, is null.
C10_NullReceiverExactly ==
    invoke_log # <<>> =>
        LET receiver == invoke_log.stack[Len(invoke_log.stack)
                                         - ArgSlots(invoke_log.parameters)]
        IN invoke_log.npe <=> (receiver = 0)

\* mC = methods[mc] of class c overrides mA = methods[ma] of class a (JVMS
\* 5.4.5): c is a proper subclass of a, both are instance methods with the
\* same name and descriptor, mC is not private, mA is not private or final,
\* and mA is public or protected, or package-private in c's package, or
\* overridden by a method in between that mC overrides.
RECURSIVE Overrides(_, _, _, _)
Overrides(c, mc, a, ma) ==
    LET mC == classes[c].methods[mc + 1]
        mA == classes[a].methods[ma + 1]
    IN /\ c # a
       /\ v_is_same_or_sub_class_of(c, a)
       /\ MethodKey(mC) = MethodKey(mA)
       /\ mC.name # "<init>"
       /\ mC.access_flags \cap {"PRIVATE", "STATIC"} = {}
       /\ mA.access_flags \cap {"PRIVATE", "STATIC", "FINAL"} = {}
       /\ \/ mA.access_flags \cap {"PUBLIC", "PROTECTED"} # {}
          \/ classes[a].package = classes[c].package
          \/ \E b \in VClassNames \ {a, c} :
                /\ v_is_same_or_sub_class_of(c, b)
                /\ v_is_same_or_sub_class_of(b, a)
                /\ \E mb \in 0 .. Len(classes[b].methods) - 1 :
                       Overrides(c, mc, b, mb) /\ Overrides(b, mb, a, ma)

\* C11: invokevirtual on a receiver whose dynamic class overrides the
\* statically resolved method invokes the receiver class's implementation.
C11_VirtualDispatch ==
    invoked.is_virtual =>
        \A m \in 0 .. Len(classes[invoked.this_class].methods) - 1 :
            Overrides(invoked.this_class, m, invoked.static_class, invoked.index)
                => invoked.class = invoked.this_class /\ invoked.method = m

\* C20: the vtable of a class with a super-class is at least as long as the
\* super-class's, and each of its first entries has the name and descriptor
\* of the super-class's entry at the same index.
C20_InheritedPrefix ==
    \A name \in DOMAIN vtable :
        LET super_class == classes[name].super_class
        IN super_class # "" =>
              /\ Len(vtable[name]) >= Len(vtable[super_class])
              /\ \A i \in DOMAIN vtable[super_class] :
                     /\ vtable[name][i].name = vtable[super_class][i].name
                     /\ vtable[name][i].descriptor = vtable[super_class][i].descriptor

\* C is built on a B that has more slots than Object, and C overrides one
C20_Witness ==
    /\ "C" \in DOMAIN vtable
    /\ Len(vtable["B"]) > Len(vtable["Object"])
    /\ \E i \in DOMAIN vtable["B"] :
           /\ vtable["C"][i].index.kind = "InThisClass"
           /\ vtable["C"][i].index # vtable["B"][i].index

\* C12: within one string table, two intern_string calls with equal byte
\* content return the same identifier, and only the first of them allocates
\* objects in the special heap.
C12_InternOnce ==
    \A i, j \in DOMAIN intern_log :
        (i < j /\ intern_log[i].string = intern_log[j].string) =>
            /\ intern_log[j].string_id = intern_log[i].string_id
            /\ intern_log[j].allocated = 0

\* a string is interned, another one after it, and then the first one again
C12_Witness ==
    \E i, j, k \in DOMAIN intern_log :
        /\ i < j /\ j < k
        /\ intern_log[i].string = intern_log[k].string
        /\ intern_log[j].string # intern_log[i].string
        /\ intern_log[i].allocated = 2
        /\ intern_log[j].allocated = 2

\* C13: a shift uses the low 5 bits of the count for an int (ISHL, ISHR,
\* IUSHR) and the low 6 bits for a long (LSHL, LSHR, LUSHR): a long is
\* shifted by any count 0..63 as given.
C13_ShiftCounts ==
    shift_out # NoShift =>
        LET op == shift_out.op
            count == IF op \in {"ISHL", "ISHR", "IUSHR"}
                     THEN shift_out.v2 % 32 ELSE shift_out.v2 % 64
        IN shift_out.result =
              IF op \in {"ISHL", "LSHL"} THEN shl(shift_out.v1, count)
              ELSE IF op \in {"ISHR", "LSHR"} THEN shr(shift_out.v1, count)
              ELSE ushr(shift_out.v1, count)

\* C16: for a non-null reference CHECKCAST succeeds, and INSTANCEOF pushes
\* 1, exactly when the object's class is assignable to the target class
\* (same class or subclass, implemented interface, array covariance); for
\* null CHECKCAST succeeds and INSTANCEOF pushes 0.
C16_CastFollowsAssignability ==
    cast_out # NoCast =>
        LET assignable == cast_class # ""
                          /\ is_array_assignable_to(cast_class, cast_target)
        IN IF cast_out.op = "CHECKCAST"
           THEN (cast_out.result = "Ok") = (cast_class = "" \/ assignable)
           ELSE cast_out.pushed = IF assignable THEN <<1>> ELSE <<0>>

\* C14: an array element load or store with an index below 0 or not below
\* the length raises ArrayIndexOutOfBoundsException and leaves the array
\* contents unchanged.
C14_IndexOutOfBounds ==
    (/\ arr_out # NoArrayOp
     /\ arr_out.op \in {"IALOAD", "IASTORE"}
     /\ arr_out.arr # 0
     /\ \/ arr_out.index < 0
        \/ arr_out.index >= Len(arr_out.before[arr_out.arr].elems))
    => /\ arr_out.result = "Err"
       /\ arr_out.exception = "java/lang/ArrayIndexOutOfBoundsException"
       /\ arr_heap = arr_out.before

\* C15: System.arraycopy between reference arrays that meets a source
\* element not assignable to the destination's element class raises
\* ArrayStoreException; the elements before the failing index have been
\* copied and the destination is unchanged at and after it.
C15_ArraycopyStoreException ==
    (/\ arr_out # NoArrayOp
     /\ arr_out.op = "arraycopy"
     /\ arr_out.src_ref = 4 /\ arr_out.dest_ref = 5
     /\ arr_out.src_pos >= 0 /\ arr_out.dest_pos >= 0 /\ arr_out.length >= 0
     /\ arr_out.src_pos + arr_out.length <= MaxArrayLen
     /\ arr_out.dest_pos + arr_out.length <= MaxArrayLen
     /\ \E i \in arr_out.src_pos .. arr_out.src_pos + arr_out.length - 1 :
            arr_out.before[4].elems[i + 1] = 1)
    => LET src == arr_out.before[4].elems
           old == arr_out.before[5].elems
           failing == CHOOSE i \in arr_out.src_pos .. arr_out.src_pos + arr_out.length - 1 :
                        /\ src[i + 1] = 1
                        /\ \A j \in arr_out.src_pos .. i - 1 : src[j + 1] # 1
           done == failing - arr_out.src_pos
       IN /\ arr_out.result = "Err"
          /\ arr_out.exception = "java/lang/ArrayStoreException"
          /\ \A k \in 1 .. MaxArrayLen :
                arr_heap[5].elems[k] =
                    IF arr_out.dest_pos < k /\ k <= arr_out.dest_pos + done
                    THEN src[arr_out.src_pos + (k - arr_out.dest_pos)]
                    ELSE old[k]

\* C17: MONITOREXIT executed by a thread that does not own the monitor
\* raises IllegalMonitorStateException and neither releases nor changes the
\* monitor.
C17_ExitNeedsOwnership ==
    (/\ mon_out # NoMonitorOp
     /\ mon_out.op = "MONITOREXIT"
     /\ mon_out.obj_ref # 0
     /\ mon_out.before.owner # mon_out.thread)
    => /\ mon_out.result = "Exception"
       /\ mon_out.exception = "java/lang/IllegalMonitorStateException"
       /\ monitor[mon_out.obj_ref] = mon_out.before

\* C18: the depth of the frame stack never exceeds the thread's depth bound:
\* a push that would exceed it raises a stack-overflow error instead of
\* linking the frame.
C18_DepthBounded ==
    max_frame_size > 0 => Len(top_frame) <= max_frame_size

\* the smallest identifier >= 1 that is not in the set ids
SmallestFree(ids) ==
    CHOOSE i \in 1 .. Cardinality(ids) + 1 :
        i \notin ids /\ \A j \in 1 .. i - 1 : j \in ids

\* C19: each allocation of the ordinary heap returns the smallest identifier
\* >= 1 that is not live when it is called, so a released identifier is the
\* next one reused when it is the smallest free one.
C19_SmallestFreeSlot ==
    [][heap_ptrs' = heap_ptrs + 1 =>
         \E a \in heap_live' : a.ptr = heap_ptrs' /\ a.id = SmallestFree(LiveIds)]_vars

\* C30: build_vtable appends an interface method only if no entry with the
\* same name and descriptor is already in the vtable (inherited, declared by
\* the class, or appended for an earlier interface): the name and descriptor
\* of an entry contributed by an interface appear in no other entry.
C30_InterfaceEntryOnce ==
    \A c \in DOMAIN vtable :
        \A k, j \in DOMAIN vtable[c] :
            /\ vtable[c][k].root_class # ""
            /\ "INTERFACE" \in classes[vtable[c][k].root_class].access_flags
            /\ vtable[c][j].name = vtable[c][k].name
            /\ vtable[c][j].descriptor = vtable[c][k].descriptor
            => j = k

\* the non-static fields a class file declares, in declaration order
OwnFields(c) ==
    SelectSeq(field_files[c].fields, LAMBDA f : "STATIC" \notin f.access_flags)

\* the slots a descriptor needs: two for long and double, one otherwise
SlotsNeeded(descriptor) == IF descriptor \in {"J", "D"} THEN 2 ELSE 1

\* C21: the instance-field list of a resolved class is the super-class's list
\* unchanged, followed by the class's own non-static fields in declaration
\* order, each at the next free slot (two slots after a long or double); the
\* count is the super's count plus the number of own non-static fields, and
\* no two fields overlap.
C21_FieldLayout ==
    \A c \in DOMAIN instance_fields_info :
        LET list == instance_fields_info[c]
            super == IF field_files[c].super_class = "" THEN <<>>
                     ELSE instance_fields_info[field_files[c].super_class]
            own == OwnFields(c)
            n == Len(super)
        IN /\ Len(list) = n + Len(own)
           /\ SubSeq(list, 1, n) = super
           /\ \A k \in DOMAIN own :
                /\ list[n + k].name = own[k].name
                /\ list[n + k].descriptor = own[k].descriptor
                /\ list[n + k].index =
                     IF n + k = 1 THEN 0
                     ELSE list[n + k - 1].index + SlotsNeeded(list[n + k - 1].descriptor)
           /\ \A i, j \in DOMAIN list :
                i < j => list[i].index + SlotsNeeded(list[i].descriptor) <= list[j].index

\* C resolved, with a double or long inherited and own fields after it
C21_Witness ==
    /\ "C" \in DOMAIN instance_fields_info
    /\ Len(OwnFields("C")) >= 2
    /\ \E k \in DOMAIN instance_fields_info["B"] :
         instance_fields_info["B"][k].descriptor \in {"J", "D"}
    /\ Len(instance_fields_info["C"]) >= 5

\* C22: a value written to field slot i by put_field, or to element i by the
\* array write, is read back unchanged by the matching read until the next
\* write to that slot or element; slots and elements never written keep
\* their allocation-time value, zero.
C22_ReadBack ==
    [][payload_got' # payload_got =>
         payload_got'.value = last_put[payload_got'.object][payload_got'.index]]_vars

\* element 0 of the int array read back negative after element 1 was written
C22_Witness ==
    /\ payload_got.object = "[I"
    /\ payload_got.index = 0
    /\ payload_got.value = -2
    /\ last_put["[I"][1] = 305419896
    /\ last_put["object"][1] = -2

(***************************************************************************)
(* Arithmetic modulo 256^n on the bytes of an integer, least significant   *)
(* first: the results the arithmetic instructions are compared with.       *)
(***************************************************************************)
Limbs(x) ==
    [k \in 1 .. (Cardinality(DOMAIN x) \div 8) |->
        LET o == 8 * (k - 1)
        IN x[o] + 2 * x[o + 1] + 4 * x[o + 2] + 8 * x[o + 3] + 16 * x[o + 4]
           + 32 * x[o + 5] + 64 * x[o + 6] + 128 * x[o + 7]]

LimbZero(p) == [k \in DOMAIN p |-> 0]

\* p + q + carry modulo 256^n
RECURSIVE LimbSum(_, _, _)
LimbSum(p, q, carry) ==
    IF p = <<>> THEN <<>>
    ELSE <<(p[1] + q[1] + carry) % 256>>
         \o LimbSum(Tail(p), Tail(q), (p[1] + q[1] + carry) \div 256)

\* p - q modulo 256^n
LimbDifference(p, q) == LimbSum(p, [k \in DOMAIN q |-> 255 - q[k]], 1)

\* the sum of p[i] * q[k + 1 - i] over i in 1 .. k
RECURSIVE ColumnSum(_, _, _, _)
ColumnSum(p, q, k, i) ==
    IF i > k THEN 0 ELSE p[i] * q[k + 1 - i] + ColumnSum(p, q, k, i + 1)

\* p * q modulo 256^n, from byte k on
RECURSIVE LimbProductFrom(_, _, _, _)
LimbProductFrom(p, q, k, carry) ==
    IF k > Len(p) THEN <<>>
    ELSE LET t == ColumnSum(p, q, k, 1) + carry
         IN <<t % 256>> \o LimbProductFrom(p, q, k + 1, t \div 256)
LimbProduct(p, q) == LimbProductFrom(p, q, 1, 0)

LimbNegative(p) == p[Len(p)] >= 128
LimbAbs(p) == IF LimbNegative(p) THEN LimbDifference(LimbZero(p), p) ELSE p

\* the magnitude is below 2^16
LimbSmall(p) == \A k \in DOMAIN p : k > 2 => LimbAbs(p)[k] = 0

\* unsigned p < q
RECURSIVE LimbLess(_, _, _)
LimbLess(p, q, k) ==
    IF k = 0 THEN FALSE
    ELSE IF p[k] # q[k] THEN p[k] < q[k] ELSE LimbLess(p, q, k - 1)

\* short division of the unsigned p by d, 0 < d < 2^16, from byte k down:
\* <<quotient, remainder>>
RECURSIVE ShortDivision(_, _, _, _, _)
ShortDivision(p, d, k, q, rem) ==
    IF k = 0 THEN <<q, [j \in DOMAIN p |-> IF j = 1 THEN rem % 256
                                          ELSE IF j = 2 THEN rem \div 256 ELSE 0]>>
    ELSE LET t == rem * 256 + p[k]
         IN ShortDivision(p, d, k - 1, [q EXCEPT ![k] = t \div d], t % d)

\* <<|b| div |a|, |b| mod |a|>> for a # 0; a divisor that is not small is
\* MIN or MAX, more than half of any |b|, so the quotient is 0 or 1
MagnitudeDivision(b, a) ==
    LET n == LimbAbs(b)
        d == LimbAbs(a)
    IN IF LimbSmall(a) THEN ShortDivision(n, d[1] + 256 * d[2], Len(n), LimbZero(n), 0)
       ELSE IF LimbLess(n, d, Len(n)) THEN <<LimbZero(n), n>>
       ELSE <<[k \in DOMAIN n |-> IF k = 1 THEN 1 ELSE 0], LimbDifference(n, d)>>

\* the quotient truncated toward zero and the remainder with the sign of b,
\* modulo 256^n
TruncatedQuotient(b, a) ==
    LET q == MagnitudeDivision(b, a)[1]
    IN IF LimbNegative(b) # LimbNegative(a) THEN LimbDifference(LimbZero(q), q) ELSE q
TruncatedRemainder(b, a) ==
    LET r == MagnitudeDivision(b, a)[2]
    IN IF LimbNegative(b) THEN LimbDifference(LimbZero(r), r) ELSE r

\* C23: IADD, ISUB, IMUL, INEG and their long counterparts push the exact
\* result reduced modulo 2^32 (2^64 for long) for all operands, MIN
\* included, and never raise.
C23_WrappingArithmetic ==
    (arith_out # NoArith /\ arith_out.op \in {"IADD", "LADD", "ISUB", "LSUB",
                                              "IMUL", "LMUL", "INEG", "LNEG"}) =>
        /\ arith_out.raised = ""
        /\ LET a == Limbs(arith_out.a)
               b == Limbs(arith_out.b)
               value == Limbs(arith_out.value)
               op == arith_out.op
           IN IF op \in {"IADD", "LADD"} THEN value = LimbSum(b, a, 0)
              ELSE IF op \in {"ISUB", "LSUB"} THEN value = LimbDifference(b, a)
              ELSE IF op \in {"IMUL", "LMUL"} THEN value = LimbProduct(b, a)
              ELSE value = LimbDifference(LimbZero(a), a)

C25_NegativeArraySize ==
    [][(/\ newarray_out' # NoNewArray
        /\ <<newarray_out', new_arrays'>> # <<newarray_out, new_arrays>>
        /\ \E k \in DOMAIN newarray_out'.counts : newarray_out'.counts[k] < 0)
       => /\ newarray_out'.raised = "java/lang/NegativeArraySizeException"
          /\ new_arrays' = new_arrays]_vars

\* MULTIANEWARRAY with dimensions 2 and -1 has raised after an array was made
C25_Witness ==
    /\ newarray_out # NoNewArray
    /\ newarray_out.op = "MULTIANEWARRAY"
    /\ newarray_out.counts = <<2, -1>>
    /\ newarray_out.raised = "java/lang/NegativeArraySizeException"
    /\ Len(new_arrays) = 1

\* the class and its super-classes
RECURSIVE Ancestors(_)
Ancestors(c) ==
    IF TypeClasses[c].super_class = "" THEN {c}
    ELSE {c} \cup Ancestors(TypeClasses[c].super_class)

\* c, or a super-class of c, names i among its interfaces
Implements(c, i) ==
    \E a \in Ancestors(c) :
        \E k \in DOMAIN TypeClasses[a].interfaces : TypeClasses[a].interfaces[k] = i

\* the slots of the heap a step has changed
Written == {i \in DOMAIN heap : heap'[i] # heap[i]}

InitInProgress(s) ==
    \E t \in InitThreads : \E k \in DOMAIN init_stack[t] :
        init_stack[t][k].class = s /\ init_stack[t][k].pc # "enter"

InitFinished(s) == clinit_status[s] = "Init" /\ ~InitInProgress(s)

\* the interfaces c names that declare a method neither static nor abstract
DefaultBearing(c) ==
    {i \in ClassNames :
        /\ \E k \in DOMAIN ClassFiles[c].interfaces : ClassFiles[c].interfaces[k] = i
        /\ \E k \in DOMAIN ClassFiles[i].methods :
              ClassFiles[i].methods[k].access_flags \cap {"STATIC", "ABSTRACT"} = {}}

SuperOf(c) == IF ClassFiles[c].super_class = "" THEN {} ELSE {ClassFiles[c].super_class}

\* the classes c a step begins the <clinit> of
ClinitBegins == {c \in ClassNames : clinit_runs'[c] > clinit_runs[c]}

\* s is being initialized by a call enclosing the one thread t is in
InitEnclosing(s) ==
    \E t \in InitThreads :
        /\ init_stack'[t] # init_stack[t]
        /\ \E k \in 1..(Len(init_stack[t]) - 1) :
              init_stack[t][k].class = s /\ init_stack[t][k].pc # "enter"

\* C27 as stated: when the <clinit> of a class C begins, the initialization
\* of C's super-class and of every interface of C that declares a
\* non-static non-abstract method has finished.
C27_PrerequisitesFinished ==
    [][\A c \in ClinitBegins :
          \A s \in SuperOf(c) \cup DefaultBearing(c) : InitFinished(s)]_vars

\* C27 amended: when the <clinit> of a class C begins, the super-class of C
\* (for C not an interface) and every interface of C that declares a
\* non-static non-abstract method has finished its initialization or is
\* being initialized by an enclosing call of the same thread.
C27_PrerequisitesFinishedOrEnclosing ==
    [][\A c \in ClinitBegins :
          \A s \in (IF ClassFiles[c].interface THEN {} ELSE SuperOf(c))
                      \cup DefaultBearing(c) :
              InitFinished(s) \/ InitEnclosing(s)]_vars

\* the <clinit> of B runs inside the <clinit> of its super-class A
C27_Witness ==
    \E t \in InitThreads :
        /\ Len(init_stack[t]) >= 2
        /\ InitTop(t).class = "B"
        /\ InitTop(t).pc = "body"
        /\ \E k \in 1..(Len(init_stack[t]) - 1) :
              init_stack[t][k].class = "A" /\ init_stack[t][k].pc = "body_ret"

\* the operand-stack slots the arguments of a method take, the receiver included
ArgumentSlots(method, op) ==
    LET parameters == guest.methods[method].parameters
    IN Len(parameters) + Cardinality({k \in DOMAIN parameters : parameters[k] = "J"})
         + (IF op = "INVOKESTATIC" THEN 0 ELSE 1)

\* p is the address of the instruction after an invoke of the method in code
FollowsInvoke(code, p, method) ==
    /\ p >= 3
    /\ p <= Len(code)
    /\ code[p - 2] \in {"INVOKESTATIC", "INVOKESPECIAL", "INVOKEVIRTUAL"}
    /\ guest.constant_pool[code[p - 1] * 256 + code[p]] = method

\* C28: an invoke moves the argument slots, in order, from the caller's
\* operand stack into the callee's locals; when the callee returns a value
\* v the caller's operand stack is its stack before the arguments were
\* pushed with v on top, and the program counter is at the instruction
\* following the invoke.
C28_InvokeAndReturn ==
    [][ /\ (Running /\ Len(top_frame') = Len(top_frame) + 1) =>
            /\ Len(top_frame'[1].locals) = ArgumentSlots(top_frame'[1].method, Op)
            /\ top_frame[1].stack = top_frame'[2].stack \o top_frame'[1].locals
        /\ (Running /\ Op = "IRETURN" /\ exec_result' = "running"
               /\ Len(top_frame') = Len(top_frame) - 1) =>
            /\ top_frame'[1].stack =
                   Append(top_frame[2].stack,
                          top_frame[1].stack[Len(top_frame[1].stack)])
            /\ FollowsInvoke(guest.methods[top_frame'[1].method].code, pc',
                             top_frame[1].method)
      ]_vars

\* C29: a constant pool decoded from a class file whose count is N has
\* every long or double entry immediately followed by one sentinel slot,
\* every sentinel slot immediately after a long or double entry, and N - 1
\* slots in all.
C29_PoolSlots ==
    cp_parsed.result = "Ok" =>
        LET pool == cp_parsed.constant_pool
        IN /\ \A k \in DOMAIN pool :
                 pool[k] \in {"Long", "Double"} =>
                     k + 1 \in DOMAIN pool /\ pool[k + 1] = "Empty"
           /\ \A k \in DOMAIN pool :
                 pool[k] = "Empty" => k > 1 /\ pool[k - 1] \in {"Long", "Double"}
           /\ Len(pool) = cp_input.count - 1

\* the method a vtable entry of the class owner dispatches to
VtableTarget(owner, entry) ==
    IF entry.index.kind = "InThisClass"
    THEN [class |-> owner, index |-> entry.index.index]
    ELSE [class |-> entry.index.class, index |-> entry.index.index]

VtableTargetMethod(owner, entry) ==
    classes[VtableTarget(owner, entry).class].methods[VtableTarget(owner, entry).index + 1]

\* C31: an entry a class inherits whose target is a final method keeps that
\* target in the vtable of the class; no vtable entry targets a private
\* method or <init>.
C31_FinalNeverOverridden ==
    \A c \in DOMAIN vtable :
        /\ \A k \in DOMAIN vtable[c] :
              /\ "PRIVATE" \notin VtableTargetMethod(c, vtable[c][k]).access_flags
              /\ VtableTargetMethod(c, vtable[c][k]).name # "<init>"
        /\ classes[c].super_class # "" /\ "INTERFACE" \notin classes[c].access_flags =>
              LET s == classes[c].super_class
              IN \A k \in DOMAIN vtable[s] :
                    "FINAL" \in VtableTargetMethod(s, vtable[s][k]).access_flags =>
                        /\ k \in DOMAIN vtable[c]
                        /\ VtableTarget(c, vtable[c][k]) = VtableTarget(s, vtable[s][k])

\* C32: the array class resolve_class returns for a name has that name as
\* its class name, and the element type get_array_type recovers from the
\* class is the element type the name denotes.
C32_ArrayClassOfName ==
    /\ array_resolved # NoResolved =>
           array_resolved.class.class_name = array_resolved.name
    /\ array_type # NoArrayType =>
           array_type.result =
               <<"Some", parse_field_descriptor(array_resolved.name)[3][2]>>

\* the offset the switch of switch_in selects for its key
SelectedOffset ==
    IF switch_in.op = "LOOKUPSWITCH"
    THEN (IF switch_in.key = 1 THEN SwitchOffsets[1]
          ELSE IF switch_in.key = 3 THEN SwitchOffsets[2] ELSE SwitchDefault)
    ELSE (IF switch_in.key = 3 THEN SwitchOffsets[1]
          ELSE IF switch_in.key = 4 THEN SwitchOffsets[2] ELSE SwitchDefault)

\* C33: a switch at any address of the method reads its operands from the
\* first multiple of 4 after the opcode and jumps to the address of the
\* opcode plus the offset selected.
C33_SwitchJumps ==
    switch_out # NoSwitch =>
        switch_out = <<"pc", switch_in.start_pc + SelectedOffset>>

\* get_array_len of an array of u32 slots: its bytes over the size of the
\* element type of its class
MultiArrayLen(a) ==
    (4 * Len(a.elems)) \div field_type_size(parse_field_descriptor(a.class)[3][2])

\* the array id is the root of the tree of arrays of class name and
\* dimension sizes dims
RECURSIVE IsArrayTree(_, _, _)
IsArrayTree(id, name, dims) ==
    /\ id \in DOMAIN new_arrays
    /\ new_arrays[id].class = name
    /\ MultiArrayLen(new_arrays[id]) = dims[1]
    /\ \A k \in DOMAIN new_arrays[id].elems :
          IF Len(dims) = 1 THEN new_arrays[id].elems[k] = 0
          ELSE IsArrayTree(new_arrays[id].elems[k], Tail(name), Tail(dims))

\* C34: MULTIANEWARRAY with dimension sizes d1 .. dk, none negative, pushes
\* the root of a tree of arrays: the outermost of length d1 and of the class
\* the instruction names, each level below of the next length and of the
\* class with one dimension fewer, the innermost elements zero or null,
\* whatever the element type.
C34_MultiArrayTree ==
    (/\ newarray_out # NoNewArray
     /\ newarray_out.op = "MULTIANEWARRAY"
     /\ \A k \in DOMAIN newarray_out.counts : newarray_out.counts[k] >= 0)
    => /\ newarray_out.raised = ""
       /\ IsArrayTree(newarray_out.id, newarray_out.name, newarray_out.counts)

\* C35: AASTORE of a non-null reference whose class is not assignable to the
\* element class of the array raises ArrayStoreException and leaves the
\* array as it was.
C35_ArrayStoreException ==
    (/\ arr_out # NoArrayOp
     /\ arr_out.op = "AASTORE"
     /\ arr_out.arr # 0
     /\ arr_out.value # 0
     /\ 0 <= arr_out.index
     /\ arr_out.index < Len(arr_out.before[arr_out.arr].elems)
     /\ ~is_assignable_to(arr_out.before[arr_out.value].class,
                          TypeClasses[arr_out.before[arr_out.arr].class].array_element_type))
    => /\ arr_out.exception = "java/lang/ArrayStoreException"
       /\ arr_heap = arr_out.before

\* thread t has begun and not yet ended the initialization of class c
InitStartedBy(t, c) ==
    \E k \in DOMAIN init_stack[t] :
        init_stack[t][k].class = c /\ init_stack[t][k].pc # "enter"

\* the step is the return, without error, of initialize_class(c) to the
\* instruction of thread t that needs c (GETSTATIC, PUTSTATIC, NEW or
\* INVOKESTATIC, in the body of a <clinit> or elsewhere): the instruction
\* goes on to use c
InitProceeds(t, c) ==
    /\ init_stack[t] # <<>>
    /\ InitTop(t).class = c
    /\ Len(init_stack'[t]) = Len(init_stack[t]) - 1
    /\ init_ret'[t] = "Ok"
    /\ \/ Len(init_stack[t]) = 1
       \/ init_stack[t][Len(init_stack[t]) - 1].pc = "body_ret"

\* thread t is at the entry of initialize_class(c) while another thread is
\* initializing c
InitWaits(t, c) ==
    /\ init_stack[t] # <<>>
    /\ InitTop(t).class = c
    /\ InitTop(t).pc = "enter"
    /\ \E u \in InitThreads \ {t} : InitStartedBy(u, c)

\* C36: an instruction of a thread uses class C (static field, NEW,
\* invokestatic) only when the initialization of C has been started by that
\* thread or has finished; a thread that finds C being initialized by
\* another thread does not move until that initialization has finished.
C36_InitializedBeforeUse ==
    [][\A t \in InitThreads : \A c \in ClassNames :
          /\ InitProceeds(t, c) => (InitStartedBy(t, c)' \/ InitFinished(c)')
          /\ InitWaits(t, c) => init_stack'[t] = init_stack[t]]_vars

\* thread 2 needs A while thread 1 runs the <clinit> of A
C36_Witness ==
    /\ InitWaits(2, "A")
    /\ \E k \in DOMAIN init_stack[1] :
          init_stack[1][k].class = "A" /\ init_stack[1][k].pc \in {"body", "body_ret"}

\* C37: a field reference naming class C resolves to one instance-field
\* slot, whether resolved at definition from C's own pool or at first
\* access from another class, also when C declares a field with the name
\* and descriptor of an inherited field.
C37_EagerLazySameSlot ==
    (/\ field_lazy # NoLazy
     /\ field_lazy.resolve[1] = "Some")
    => /\ field_lazy.key \in DOMAIN field_eager[field_lazy.class]
       /\ field_eager[field_lazy.class][field_lazy.key] = field_lazy.resolve[2]

\* the index and the immediate of the IINC of iinc_in, the immediate as a
\* signed 8-bit value, or a signed 16-bit value under the wide prefix
IincIndex == IF iinc_in.wide THEN iinc_in.code[2] ELSE iinc_in.code[1]
IincImmediate ==
    IF iinc_in.wide
    THEN (IF iinc_in.code[3] >= 128 THEN iinc_in.code[3] - 256 ELSE iinc_in.code[3]) * 256
           + iinc_in.code[4]
    ELSE IF iinc_in.code[2] >= 128 THEN iinc_in.code[2] - 256 ELSE iinc_in.code[2]

\* C38: IINC adds its immediate, a signed 8-bit value (signed 16-bit under
\* wide), to the local with two's-complement wrapping: the byte 0xFF
\* decrements the local by 1.
C38_IincSigned ==
    iinc_out # NoIinc =>
        /\ iinc_out.result = "ok"
        /\ iinc_out.locals =
             [iinc_in.locals EXCEPT
                ![IincIndex + 1] = i32_wrapping_add(@, IincImmediate)]

\* C39: CHECKCAST and INSTANCEOF whose class constant names the class of the
\* executing method complete as for any other target class: the class they
\* compare against is there after the resolution, and the outcome is that
\* of the comparison with it.
C39_OwnClassResolved ==
    (cast_out # NoCast /\ cast_target = cast_frame)
    => /\ cast_out.result # "panic"
       /\ cast_class # "" =>
             IF cast_out.op = "CHECKCAST"
             THEN (cast_out.result = "Ok") = t_is_same_or_sub_class_of(cast_class, cast_target)
             ELSE cast_out.pushed =
                    IF t_is_same_or_sub_class_of(cast_class, cast_target) THEN <<1>> ELSE <<0>>

\* the arraycopy of arr_out was between two arrays of one element type with
\* positions and length not negative
CopyOfArrays ==
    /\ arr_out # NoArrayOp
    /\ arr_out.op = "arraycopy"
    /\ arr_out.src_ref # 0 /\ arr_out.dest_ref # 0
    /\ LET src_type == get_array_type(arr_out.before[arr_out.src_ref].class)
           dest_type == get_array_type(arr_out.before[arr_out.dest_ref].class)
       IN /\ src_type # "" /\ dest_type # ""
          /\ (is_primitive(src_type) \/ is_primitive(dest_type)) => src_type = dest_type
    /\ arr_out.src_pos >= 0 /\ arr_out.dest_pos >= 0 /\ arr_out.length >= 0

\* C40: System.arraycopy raises an index-out-of-bounds exception and copies
\* nothing whenever srcPos + length exceeds the source length or
\* destPos + length exceeds the destination length, also when the sums
\* exceed 2^31 - 1.
C40_ArraycopyBounds ==
    (/\ CopyOfArrays
     /\ \/ arr_out.length > Len(arr_out.before[arr_out.src_ref].elems) - arr_out.src_pos
        \/ arr_out.length > Len(arr_out.before[arr_out.dest_ref].elems) - arr_out.dest_pos)
    => /\ arr_out.result = "Err"
       /\ arr_out.exception = "java/lang/IndexOutOfBoundsException"
       /\ arr_heap = arr_out.before

====
